---- MODULE Spec2Model ----
(***************************************************************************)
(* pgpart: the partition operation engine.                                 *)
(*                                                                         *)
(*   BatchQueue        the ordered queue of deferred operations and its    *)
(*                     executor ExecuteAll            (package partition)  *)
(*   OperationHistory  the undo/redo log with its cursor currentPos        *)
(*                                                                         *)
(*   MainWindow        the undo/redo handlers of the main window and the   *)
(*                     handlers that apply structural operations (ui)      *)
(*   ResizeDialog      the resize bounds and the three resize paths        *)
(*   checkAlignment, GetOptimalAlignment                                   *)
(*   CopyPartition     the block copy with its size checks                 *)
(*   MovePartition     copy, then deletion of the source; the Move         *)
(*                     Partition dialog                                    *)
(*   SetPartitionAttribute, UnsetPartitionAttribute                        *)
(*   getFileSystem     the file system kind from fstyp and file -s         *)
(*   GetDisks          the disk scan and the parser of gpart show -p       *)
(*   BatchDialog       ExecuteAll with the dialog's progress callback      *)
(*   CopyPartition     the dd process, its stderr pipe and the monitor     *)
(*                     loop with parseProgress                             *)
(*   PerformOnlineResize, CanResizeOnline, ResizeFilesystemOnline          *)
(*   InteractivePartitionView   handleDrag on the view's disk              *)
(*   MoveOperation     the reordering of the batch queue                   *)
(*   BatchDialog       the add dialogs and executeOperation on what they   *)
(*                     queue                                               *)
(*                                                                         *)
(* Each part is checked under its own specification (SpecBatch, SpecHist,  *)
(* SpecRestore, SpecMW, SpecApply, SpecResize, SpecAlign, SpecCopy,        *)
(* SpecMove, SpecMoveDialog, SpecAttr, SpecFS, SpecScan, SpecDialog,       *)
(* SpecDialogFair, SpecStream, SpecStreamFair, SpecOnline, SpecView,       *)
(* SpecReorder and SpecQueued); the variables of the other parts stay as   *)
(* Init left them.                                                         *)
(***************************************************************************)
EXTENDS Integers, Sequences, FiniteSets, TLC

VARIABLES
    \* ---- BatchQueue
    operations,        \* bq.operations: the queue, a sequence of BatchOperation
    nextID,            \* bq.nextID
    mu,                \* bq.mu: "unlocked", or "locked" by a running ExecuteAll
    \* ---- one ExecuteAll call: its parameters, locals and position
    pc,                \* "idle" | "loop" | "progress" | "exec" | "returned"
    stopOnError,       \* parameter stopOnError
    progressCallback,  \* parameter progressCallback: TRUE iff it is not nil
    total,             \* local total
    idx,               \* loop index i (0-based, as in the Go range loop)
    ret,               \* "none" | "nil" | "error": what ExecuteAll returned
    before,            \* bq.operations as they were when ExecuteAll was called
    log,               \* callback firings and external actions of this run
    succeeded,         \* per operation ID: successful external actions so far
    \* ---- OperationHistory
    entries,           \* oh.entries: a sequence of HistoryEntry
    histNextID,        \* oh.nextID
    currentPos,        \* oh.currentPos (0-based, -1 when nothing is applied)
    trail,             \* the last calls on the history, each with its pre-state
    \* ---- MainWindow (undo/redo and the structural handlers)
    mwPhase,           \* "idle" | "undoConfirm" | "redoConfirm": the open confirm dialog
    mwEntryID,         \* entry.ID of the entry the open dialog is about (0: none)
    mwOldPos,          \* local oldPos of performUndo / performRedo
    mwRequest,         \* entries and currentPos when the last handler was entered
    mwLast,            \* the last handler and how it ended
    \* ---- the resize paths (resize dialog, batch dialog, command line)
    disk,              \* the partition.Disk: Size and Partitions
    selected,          \* index in disk.Partitions of the partition to resize
    maxSize,           \* what calculateMaxSize returned (-1: not called yet)
    queuedSize,        \* Size of the queued batch resize operation (-1: none)
    gpartResizes,      \* the "gpart resize" commands run: path and new size in bytes
    resizeLast,        \* the last resize request and its verdict
    \* ---- alignment
    offset,            \* the byte offset given to checkAlignment
    alignment,         \* what checkAlignment returned
    diskinfoOutput,    \* what "diskinfo -v" printed, or the failure of the command
    optimal,           \* what GetOptimalAlignment returned
    \* ---- CopyPartition
    copyCall,          \* the arguments and the environment of the last call
    subprocesses,      \* the subprocesses the last call started, in order
    copyErr,           \* the error the last call returned ("" for nil)
    \* ---- MovePartition and the Move Partition dialog
    moveCall,          \* the arguments and the environment of the last move
    moveRun,           \* the subprocesses the last move started, in order
    moveErr,           \* the error the last move ended with ("" for nil)
    \* ---- SetPartitionAttribute / UnsetPartitionAttribute
    attrCall,          \* the function called, its arguments and the environment
    attrRun,           \* the external commands the last call invoked, in order
    attrErr,           \* the error the last call returned ("" for nil)
    \* ---- getFileSystem
    fsCall,            \* what fstyp and "file -s" come back with in the last call
    fsKind,            \* the file system kind the last call returned
    fsErr,             \* the error the last call returned ("" for nil)
    \* ---- GetDisks (the disk scan)
    scanEnv,           \* what "geom disk list" and each "gpart show -p" come back with
    scanDisks,         \* the []Disk the last GetDisks returned
    scanErr,           \* the error the last GetDisks returned ("" for nil)
    \* ---- BatchDialog: the progress callback of performExecution
    cbPc,              \* "none" | "refresh": where the dialog's progress callback is
    listLength,        \* what the list's length function last got from Count (-1: nothing)
    \* ---- CopyPartition from cmd.Start on: dd, its stderr pipe and the scan loop
    copyPc,            \* "idle" | "scan" | "wait" | "returned": where CopyPartition is
    copyCallback,      \* TRUE iff CopyPartition's progressCallback is not nil
    srcSize,           \* local sourceSize of the running CopyPartition
    ddState,           \* "none" | "running" | "exited": the dd subprocess
    ddLeft,            \* the diagnostic lines dd has still to write
    ddOK,              \* whether dd ends with exit status 0
    stderr,            \* the lines written to the stderr pipe and not yet read
    scanned,           \* the line the scanner read last and the callback made for it
    streamErr,         \* the error the call returned ("" for nil)
    \* ---- PerformOnlineResize
    onlineCall,        \* the arguments and the environment of the last call
    onlineRun,         \* the external commands the last call invoked, in order
    onlineErr,         \* the error the last call returned ("" for nil)
    \* ---- InteractivePartitionView
    viewDisk,          \* v.disk: the scanned Disk the view shows, with its Partitions
    drags,             \* how many times handleDrag has run on this view
    \* ---- BatchQueue.MoveOperation with its return value
    reorderLast,       \* the last MoveOperation call: the queue before it, its arguments, its error
    \* ---- BatchDialog: delete and resize operations from the dialog to their command
    added,             \* the operations added from the dialog, each with the partition that was selected
    issued             \* the operation executed last: the partition selected for it and its commands

batchVars == <<operations, nextID, mu, pc, stopOnError, progressCallback,
               total, idx, ret, before, log, succeeded>>
histVars  == <<entries, histNextID, currentPos, trail>>
mwVars    == <<mwPhase, mwEntryID, mwOldPos, mwRequest, mwLast>>
resizeVars == <<disk, selected, maxSize, queuedSize, gpartResizes, resizeLast>>
alignVars == <<offset, alignment, diskinfoOutput, optimal>>
copyVars  == <<copyCall, subprocesses, copyErr>>
moveVars  == <<moveCall, moveRun, moveErr>>
attrVars  == <<attrCall, attrRun, attrErr>>
fsVars    == <<fsCall, fsKind, fsErr>>
scanVars  == <<scanEnv, scanDisks, scanErr>>
dialogVars == <<cbPc, listLength>>
streamVars == <<copyPc, copyCallback, srcSize, ddState, ddLeft, ddOK, stderr, scanned, streamErr>>
onlineVars == <<onlineCall, onlineRun, onlineErr>>
viewVars  == <<viewDisk, drags>>
reorderVars == <<reorderLast>>
queuedVars == <<added, issued>>
sideVars  == <<mwVars, resizeVars, alignVars, copyVars, moveVars, attrVars, fsVars, scanVars, dialogVars, streamVars, onlineVars, viewVars, reorderVars, queuedVars>>
notMW     == <<batchVars, resizeVars, alignVars, copyVars, moveVars, attrVars, fsVars, scanVars, dialogVars, streamVars, onlineVars, viewVars, reorderVars, queuedVars>>
notResize == <<batchVars, histVars, mwVars, alignVars, copyVars, moveVars, attrVars, fsVars, scanVars, dialogVars, streamVars, onlineVars, viewVars, reorderVars, queuedVars>>
notAlign  == <<batchVars, histVars, mwVars, resizeVars, copyVars, moveVars, attrVars, fsVars, scanVars, dialogVars, streamVars, onlineVars, viewVars, reorderVars, queuedVars>>
notCopy   == <<batchVars, histVars, mwVars, resizeVars, alignVars, moveVars, attrVars, fsVars, scanVars, dialogVars, streamVars, onlineVars, viewVars, reorderVars, queuedVars>>
notMove   == <<batchVars, histVars, mwVars, resizeVars, alignVars, copyVars, attrVars, fsVars, scanVars, dialogVars, streamVars, onlineVars, viewVars, reorderVars, queuedVars>>
notAttr   == <<batchVars, histVars, mwVars, resizeVars, alignVars, copyVars, moveVars, fsVars, scanVars, dialogVars, streamVars, onlineVars, viewVars, reorderVars, queuedVars>>
notFS     == <<batchVars, histVars, mwVars, resizeVars, alignVars, copyVars, moveVars, attrVars, scanVars, dialogVars, streamVars, onlineVars, viewVars, reorderVars, queuedVars>>
notScan   == <<batchVars, histVars, mwVars, resizeVars, alignVars, copyVars, moveVars, attrVars, fsVars, dialogVars, streamVars, onlineVars, viewVars, reorderVars, queuedVars>>
notDialog == <<batchVars, histVars, mwVars, resizeVars, alignVars, copyVars, moveVars, attrVars, fsVars, scanVars, streamVars, onlineVars, viewVars, reorderVars, queuedVars>>
notStream == <<batchVars, histVars, mwVars, resizeVars, alignVars, copyVars, moveVars, attrVars, fsVars, scanVars, dialogVars, onlineVars, viewVars, reorderVars, queuedVars>>
notOnline == <<batchVars, histVars, mwVars, resizeVars, alignVars, copyVars, moveVars, attrVars, fsVars, scanVars, dialogVars, streamVars, viewVars, reorderVars, queuedVars>>
notView   == <<batchVars, histVars, mwVars, resizeVars, alignVars, copyVars, moveVars, attrVars, fsVars, scanVars, dialogVars, streamVars, onlineVars, reorderVars, queuedVars>>
notReorder == <<batchVars, histVars, mwVars, resizeVars, alignVars, copyVars, moveVars, attrVars, fsVars, scanVars, dialogVars, streamVars, onlineVars, viewVars, queuedVars>>
notQueued == <<batchVars, histVars, mwVars, resizeVars, alignVars, copyVars, moveVars, attrVars, fsVars, scanVars, dialogVars, streamVars, onlineVars, viewVars, reorderVars>>
vars      == <<batchVars, histVars, sideVars>>

----------------------------------------------------------------------------
\* Bounds of the model

MaxOps     == 3    \* longest queue AddOperation builds
MaxBatchID == 3    \* AddOperation stops once nextID has passed this ID
MaxHist    == 3    \* longest history a Record* call builds
MaxHistID  == 3    \* Record* stops once oh.nextID has passed this ID
TrailLen   == 3    \* calls remembered in trail
MaxParts   == 3    \* most partitions on the disk of the resize paths
MaxDiskMiB == 32   \* the larger of the two disk sizes, in MiB
StartGridMiB == 8  \* partitions start at 1 MiB or on multiples of this
MaxAlignMult == 2  \* offsets reach up to this many times 4 MiB (and a bit)
MaxCopySectors == 2  \* largest partition CopyPartition meets, in sectors
MaxDdLines == 3    \* most diagnostic lines dd writes in one copy
MaxOnlineSectors == 2  \* largest partition PerformOnlineResize meets, in sectors
MaxDrags == 2      \* most drag events on one view before it is refreshed
MaxAdded == 2      \* most operations added from the batch dialog and not yet executed

----------------------------------------------------------------------------
\* Go slices as sequences: Go index i is sequence index i + 1

Slice(s, lo, hi) == SubSeq(s, lo + 1, hi)            \* s[lo:hi]

At(s, i) == s[i + 1]                                 \* s[i]

IndexOfID(s, id) ==                                  \* first i with s[i].ID == id, or -1
    IF \E i \in 1..Len(s) : s[i].ID = id
    THEN (CHOOSE i \in 1..Len(s) :
              s[i].ID = id /\ \A j \in 1..(i - 1) : s[j].ID # id) - 1
    ELSE -1

----------------------------------------------------------------------------
\* OperationType

OpCreate == 0
OpDelete == 1
OpFormat == 2
OpResize == 3
OpCopy   == 4
OpMove   == 5

OperationTypes == {OpCreate, OpDelete, OpFormat, OpResize, OpCopy, OpMove}

\* The types AddOperation is called with. The batch dialog, the only caller,
\* adds operations of known types, and the queue treats every known type alike
\* (an external command that succeeds or fails), so one type stands for them.
AddedTypes == {OpFormat}

\* BatchOperation: ID, Type, Status, Error. The operation-specific parameters
\* (Disk, Index, Partition, ...) are passed to the external command and never
\* read by the queue.
BatchOperation(id, type) ==
    [ID |-> id, Type |-> type, Status |-> "pending", Error |-> ""]

----------------------------------------------------------------------------
\* BatchQueue

NewBatchQueue ==
    /\ operations = <<>>
    /\ nextID = 1
    /\ mu = "unlocked"
    /\ pc = "idle"
    /\ stopOnError = FALSE
    /\ progressCallback = FALSE
    /\ total = 0
    /\ idx = 0
    /\ ret = "none"
    /\ before = <<>>
    /\ log = <<>>
    /\ succeeded = [id \in 1..(MaxBatchID + 1) |-> 0]

\* A call other than ExecuteAll ends the observation of the last run: its
\* parameters, locals and log are dropped, and so is the count of an operation
\* that has left the queue (IDs are never given twice).
ForgetRun ==
    /\ pc' = "idle"
    /\ ret' = "none"
    /\ before' = <<>>
    /\ log' = <<>>
    /\ total' = 0
    /\ idx' = 0
    /\ stopOnError' = FALSE
    /\ progressCallback' = FALSE
    /\ succeeded' = [id \in DOMAIN succeeded |->
                         IF \E i \in 1..Len(operations') : operations'[i].ID = id
                         THEN succeeded[id] ELSE 0]

\* (mutant) the queue's methods do not take bq.mu
Lock_Free == TRUE

\* bq.mu.Lock() of a call that is not ExecuteAll: it gets the lock only while
\* no ExecuteAll holds it.
Lock == mu = "unlocked"

AddOperation(type) ==
    /\ Lock
    /\ Len(operations) < MaxOps
    /\ nextID <= MaxBatchID
    /\ operations' = Append(operations, BatchOperation(nextID, type))
    /\ nextID' = nextID + 1
    /\ ForgetRun
    /\ UNCHANGED <<mu, histVars, sideVars>>

RemoveOperation(id) ==
    /\ Lock
    /\ LET i == IndexOfID(operations, id) IN
       operations' = IF i # -1
                     THEN Slice(operations, 0, i)
                              \o Slice(operations, i + 1, Len(operations))
                     ELSE operations
    /\ ForgetRun
    /\ UNCHANGED <<nextID, mu, histVars, sideVars>>

\* (mutant) the operation changes places with the one at newPosition
MoveResult_Swap(ops, id, newPosition) ==
    LET opIndex == IndexOfID(ops, id) IN
    IF opIndex = -1 THEN ops
    ELSE IF newPosition < 0 \/ newPosition >= Len(ops) THEN ops
    ELSE [ops EXCEPT ![opIndex + 1] = At(ops, newPosition),
                     ![newPosition + 1] = At(ops, opIndex)]

MoveResult(ops, id, newPosition) ==
    LET opIndex == IndexOfID(ops, id) IN
    IF opIndex = -1 THEN ops
    ELSE IF newPosition < 0 \/ newPosition >= Len(ops) THEN ops
    ELSE LET op      == At(ops, opIndex)
             removed == Slice(ops, 0, opIndex) \o Slice(ops, opIndex + 1, Len(ops))
         IN  Slice(removed, 0, newPosition)
                 \o (<<op>> \o Slice(removed, newPosition, Len(removed)))

MoveOperation(id, newPosition) ==
    /\ Lock
    /\ operations' = MoveResult(operations, id, newPosition)
    /\ ForgetRun
    /\ UNCHANGED <<nextID, mu, histVars, sideVars>>

\* The Move Up and Move Down buttons of the batch dialog, the callers of
\* MoveOperation: the operation selected in the list (selectedOp, an index of
\* the queue) goes to the place beside its own.
moveUpBtn(selectedOp) ==
    /\ selectedOp > 0
    /\ MoveOperation(At(operations, selectedOp).ID, selectedOp - 1)

moveDownBtn(selectedOp) ==
    /\ selectedOp >= 0 /\ selectedOp < Len(operations) - 1
    /\ MoveOperation(At(operations, selectedOp).ID, selectedOp + 1)

BatchQueueClear ==
    /\ Lock
    /\ operations' = <<>>
    /\ ForgetRun
    /\ UNCHANGED <<nextID, mu, histVars, sideVars>>

----------------------------------------------------------------------------
\* ExecuteAll, one step per statement group; bq.mu is held from the call to
\* the return.

SetStatus(ops, i, status, error) ==
    [ops EXCEPT ![i + 1] = [@ EXCEPT !.Status = status, !.Error = error]]

\* Lock, total := len(bq.operations), the empty-queue return.
ExecuteAllCall(stop, cb) ==
    /\ Lock
    /\ stopOnError' = stop
    /\ progressCallback' = cb
    /\ total' = Len(operations)
    /\ before' = operations
    /\ log' = <<>>
    /\ idx' = 0
    /\ IF Len(operations) = 0
       THEN /\ pc' = "returned"
            /\ ret' = "error"
            /\ mu' = "unlocked"
       ELSE /\ pc' = "loop"
            /\ ret' = "none"
            /\ mu' = "locked"
    /\ UNCHANGED <<operations, nextID, succeeded, histVars, sideVars>>

\* (mutant) the loop runs over the queue from its end
RangeIndex_Reversed(k, n) == n - 1 - k

\* for i, op := range bq.operations: iteration k of n visits index k.
RangeIndex(k, n) == k

\* (mutant) the loop body has no check for completed operations
Skips_Never(op) == FALSE

\* The guard of the loop body: a completed operation is skipped.
Skips(op) == op.Status = "completed"

\* The operation the loop is at
Current == At(operations, RangeIndex(idx, total))

\* if op.Status == "completed" { continue }
ExecuteAllSkip ==
    /\ pc = "loop"
    /\ idx < total
    /\ Skips(Current)
    /\ idx' = idx + 1
    /\ UNCHANGED <<operations, nextID, mu, pc, stopOnError, progressCallback,
                   total, ret, before, log, succeeded, histVars, sideVars>>

\* op.Status = "running"
ExecuteAllRunning ==
    /\ pc = "loop"
    /\ idx < total
    /\ ~Skips(Current)
    /\ operations' = SetStatus(operations, RangeIndex(idx, total), "running", Current.Error)
    /\ pc' = IF progressCallback THEN "progress" ELSE "exec"
    /\ UNCHANGED <<nextID, mu, stopOnError, progressCallback, total, idx, ret,
                   before, log, succeeded, histVars, sideVars>>

\* (mutant) the callback gets the 0-based loop index
ProgressEvent_ZeroBased(i, n, op) ==
    [ev |-> "progress", current |-> i, total |-> n, id |-> op.ID,
     status |-> op.Status, ok |-> TRUE]

ProgressEvent(i, n, op) ==
    [ev |-> "progress", current |-> i + 1, total |-> n, id |-> op.ID,
     status |-> op.Status, ok |-> TRUE]

\* progressCallback(i+1, total, op.Description)
ExecuteAllProgress ==
    /\ pc = "progress"
    /\ log' = Append(log, ProgressEvent(RangeIndex(idx, total), total, Current))
    /\ pc' = "exec"
    /\ UNCHANGED <<operations, nextID, mu, stopOnError, progressCallback, total,
                   idx, ret, before, succeeded, histVars, sideVars>>

\* executeOperation: the external command of a known type succeeds or fails;
\* an unknown type is an error without any command.
executeOperation(op, commandOK) ==
    IF op.Type \in OperationTypes THEN commandOK ELSE FALSE

ExecEvent(i, n, op, ok) ==
    [ev |-> "exec", current |-> i + 1, total |-> n, id |-> op.ID,
     status |-> op.Status, ok |-> ok]

\* (mutant) stopOnError is ignored: the loop always goes on
HaltsOnFailure_Never(stop) == FALSE

\* (mutant) the loop returns at the first failure whatever stopOnError says
HaltsOnFailure_Always(stop) == TRUE

\* if stopOnError { return ... }: after a failure the loop returns at once, or
\* goes on.
HaltsOnFailure(stop) == stop

\* err := bq.executeOperation(op) and the status it leads to
ExecuteAllExec ==
    /\ pc = "exec"
    /\ \E commandOK \in BOOLEAN :
         LET op == Current
             i  == RangeIndex(idx, total)
             ok == executeOperation(op, commandOK)
         IN  /\ log' = Append(log, ExecEvent(i, total, op, ok))
             /\ IF ok
                THEN /\ operations' = SetStatus(operations, i, "completed", op.Error)
                     /\ succeeded' = [succeeded EXCEPT ![op.ID] = @ + 1]
                     /\ pc' = "loop"
                     /\ idx' = idx + 1
                     /\ UNCHANGED <<ret, mu>>
                ELSE /\ operations' = SetStatus(operations, i, "failed", "err")
                     /\ UNCHANGED succeeded
                     /\ IF HaltsOnFailure(stopOnError)
                        THEN /\ pc' = "returned"
                             /\ ret' = "error"
                             /\ mu' = "unlocked"
                             /\ UNCHANGED idx
                        ELSE /\ pc' = "loop"
                             /\ idx' = idx + 1
                             /\ UNCHANGED <<ret, mu>>
    /\ UNCHANGED <<nextID, stopOnError, progressCallback, total, before, histVars, sideVars>>

\* the loop is over: return nil
ExecuteAllReturn ==
    /\ pc = "loop"
    /\ idx >= total
    /\ pc' = "returned"
    /\ ret' = "nil"
    /\ mu' = "unlocked"
    /\ UNCHANGED <<operations, nextID, stopOnError, progressCallback, total, idx,
                   before, log, succeeded, histVars, sideVars>>

NextBatch ==
    \/ \E type \in AddedTypes : AddOperation(type)
    \/ \E id \in 1..MaxBatchID : RemoveOperation(id)
    \/ \E selectedOp \in 0..(Len(operations) - 1) :
          moveUpBtn(selectedOp) \/ moveDownBtn(selectedOp)
    \/ BatchQueueClear
    \/ \E stop \in BOOLEAN, cb \in BOOLEAN : ExecuteAllCall(stop, cb)
    \/ ExecuteAllSkip
    \/ ExecuteAllRunning
    \/ ExecuteAllProgress
    \/ ExecuteAllExec
    \/ ExecuteAllReturn

----------------------------------------------------------------------------
\* Properties of the BatchQueue (checked under SpecBatch)

ExecPositions == {p \in 1..Len(log) : log[p].ev = "exec"}

ProgressPositions == {p \in 1..Len(log) : log[p].ev = "progress"}

FailedExecs == {p \in ExecPositions : ~log[p].ok}

\* 1-based queue positions whose external action this run has invoked
Executed == {log[p].current : p \in ExecPositions}

\* 1-based queue positions that were not completed when the run was called
NotCompletedBefore == {i \in 1..Len(before) : before[i].Status # "completed"}

IDsOf(ops) == [i \in 1..Len(ops) |-> ops[i].ID]

\* C1: with stopOnError set, the first failed execution ends the run: that
\* operation is failed, ExecuteAll has returned an error, nothing was invoked
\* after it, and every operation behind it in the queue is exactly as it was
\* when ExecuteAll was called (a pending one is still pending).
C1_StopOnErrorHalts ==
    (stopOnError /\ FailedExecs # {}) =>
        LET f == log[Len(log)] IN
        /\ FailedExecs = {Len(log)}
        /\ pc = "returned"
        /\ ret = "error"
        /\ mu = "unlocked"
        /\ f.current \in 1..Len(operations)
        /\ operations[f.current].Status = "failed"
        /\ \A p \in 1..Len(log) : log[p].current <= f.current
        /\ \A j \in (f.current + 1)..Len(operations) : operations[j] = before[j]

C1_Witness ==
    /\ pc = "returned"
    /\ stopOnError
    /\ Len(operations) = 3
    /\ FailedExecs # {}
    /\ log[Len(log)].current = 2
    /\ operations[1].Status = "completed"
    /\ operations[2].Status = "failed"
    /\ operations[3].Status = "pending"

\* C2: without stopOnError, a call on a non-empty queue returns nil after
\* invoking the action of every operation that was not completed, each once,
\* failures included; on return every operation is completed or failed.
C2_ContinueRunsAll ==
    (pc = "returned" /\ ~stopOnError /\ Len(before) > 0) =>
        /\ ret = "nil"
        /\ Executed = NotCompletedBefore
        /\ Cardinality(ExecPositions) = Cardinality(NotCompletedBefore)
        /\ \A i \in 1..Len(operations) :
               operations[i].Status \in {"completed", "failed"}

C2_Witness ==
    /\ pc = "returned"
    /\ ~stopOnError
    /\ Len(operations) = 3
    /\ operations[1].Status = "completed"
    /\ operations[2].Status = "failed"
    /\ operations[3].Status = "completed"
    /\ Cardinality(ExecPositions) = 3

\* C3: a run never invokes the action of an operation that was completed when
\* the run was called and leaves it completed; a run that has returned has
\* invoked exactly the operations that were not completed, up to the place
\* where it halted; and no operation's action has succeeded more than once.
C3_CompletedNeverRerun ==
    /\ \A id \in DOMAIN succeeded : succeeded[id] <= 1
    /\ pc # "idle" =>
          /\ Executed \subseteq NotCompletedBefore
          /\ \A i \in 1..Len(before) :
                 before[i].Status = "completed" => operations[i] = before[i]
    /\ (pc = "returned" /\ ret = "nil") => Executed = NotCompletedBefore
    /\ (pc = "returned" /\ ret = "error" /\ Len(before) > 0) =>
          Executed = {i \in NotCompletedBefore : i <= log[Len(log)].current}

C3_Witness ==
    /\ pc = "returned"
    /\ Len(before) = 3
    /\ before[1].Status = "completed"
    /\ before[2].Status = "failed"
    /\ operations[2].Status = "completed"
    /\ Executed = {2, 3}
    /\ succeeded[before[1].ID] = 1
    /\ succeeded[before[2].ID] = 1

\* C4: the actions of one run are invoked in the order of the queue as it was
\* when the run was called: the invoked positions strictly increase, each
\* action is the one of the operation at that position, the queue is not
\* reordered while the run lasts, and at most one operation is running.
C4_QueueOrder ==
    /\ \A p, q \in ExecPositions : p < q => log[p].current < log[q].current
    /\ \A p \in ExecPositions :
           /\ log[p].current \in 1..Len(before)
           /\ log[p].id = before[log[p].current].ID
    /\ pc # "idle" => IDsOf(operations) = IDsOf(before)
    /\ Cardinality({i \in 1..Len(operations) : operations[i].Status = "running"}) <= 1

\* a run over a queue that MoveOperation has put out of insertion order
C4_Witness ==
    /\ pc = "returned"
    /\ Len(before) = 3
    /\ before[1].ID > before[2].ID
    /\ before[2].ID < before[3].ID
    /\ Cardinality(ExecPositions) = 3

\* Every status change of an operation that stays in the queue is one of `allowed`.
StatusChangesWithin(allowed) ==
    \A i \in 1..Len(operations) : \A j \in 1..Len(operations') :
        (operations[i].ID = operations'[j].ID
           /\ operations[i].Status # operations'[j].Status)
        => <<operations[i].Status, operations'[j].Status>> \in allowed

\* C5 as stated: an operation enters running only from pending, and completed
\* and failed are never left.
C5_Original ==
    [][StatusChangesWithin({<<"pending", "running">>, <<"running", "completed">>,
                            <<"running", "failed">>})]_vars

\* C5 as amended: an operation enters running from pending or, when a later
\* ExecuteAll run retries it, from failed; it leaves running to completed or
\* failed; completed is never left.
C5_Amended ==
    [][StatusChangesWithin({<<"pending", "running">>, <<"failed", "running">>,
                            <<"running", "completed">>, <<"running", "failed">>})]_vars

\* a later run has put a failed operation back to running
C5_Witness ==
    /\ pc = "exec"
    /\ At(before, RangeIndex(idx, total)).Status = "failed"
    /\ Current.Status = "running"

\* C6: with a progress callback, the callback fires once for each operation the
\* run executes, right before that operation's action and with the operation
\* already running, with current = its 1-based queue position and total = the
\* queue length; it never fires for an operation skipped as completed.
C6_ProgressBeforeEach ==
    (progressCallback /\ pc # "idle") =>
        /\ \A p \in 1..Len(log) :
               IF p % 2 = 1
               THEN /\ log[p].ev = "progress"
                    /\ log[p].status = "running"
                    /\ log[p].total = Len(operations)
                    /\ log[p].current \in 1..Len(before)
                    /\ log[p].id = before[log[p].current].ID
                    /\ before[log[p].current].Status # "completed"
               ELSE /\ log[p].ev = "exec"
                    /\ log[p].current = log[p - 1].current
        /\ \A p, q \in ProgressPositions : p < q => log[p].current < log[q].current
        /\ Len(log) % 2 = (IF pc = "exec" THEN 1 ELSE 0)
        /\ (pc = "returned" /\ ret = "nil") =>
               {log[p].current : p \in ProgressPositions} = NotCompletedBefore

\* the callback fired for the second and third of three operations, the first
\* having been skipped as completed
C6_Witness ==
    /\ progressCallback
    /\ pc = "returned"
    /\ Len(before) = 3
    /\ before[1].Status = "completed"
    /\ Len(log) = 4
    /\ log[1].ev = "progress" /\ log[1].current = 2 /\ log[1].total = 3
    /\ log[3].ev = "progress" /\ log[3].current = 3

\* the queue as the mutators change it: which operations, in which order
QueueOf(ops) == [i \in 1..Len(ops) |-> <<ops[i].ID, ops[i].Type>>]

\* C29: while an ExecuteAll run is in progress (it holds bq.mu), no step adds,
\* removes, moves or clears operations and no second run starts: the queue
\* keeps the same operations in the same order, the run's own snapshot, total
\* and parameters stay, its index only advances and its log only grows.  A
\* mutation or a second ExecuteAll therefore takes effect only after the run
\* has returned, and no operation is executed by two runs at once.
C29_RunIsExclusive ==
    [][mu = "locked" =>
          /\ QueueOf(operations') = QueueOf(operations)
          /\ nextID' = nextID
          /\ before' = before
          /\ total' = total
          /\ stopOnError' = stopOnError
          /\ progressCallback' = progressCallback
          /\ idx' >= idx
          /\ Len(log') >= Len(log)
          /\ SubSeq(log', 1, Len(log)) = log
          /\ \A id \in DOMAIN succeeded : succeeded'[id] >= succeeded[id]]_vars

\* a run is in the middle of a queue of two operations, with its second
\* operation executing, while AddOperation still has room and an ID to give
C29_Witness ==
    /\ mu = "locked"
    /\ pc = "exec"
    /\ idx = 1
    /\ Len(operations) = 2
    /\ Len(operations) < MaxOps
    /\ nextID <= MaxBatchID

\* C36: an operation whose status is completed has an empty Error string,
\* also when an earlier run failed on it and a later run succeeded.
C36_CompletedHasNoError ==
    \A i \in 1..Len(operations) :
        operations[i].Status = "completed" => operations[i].Error = ""

\* GetCompletedCount()
GetCompletedCount ==
    Cardinality({i \in 1..Len(operations) : operations[i].Status = "completed"})

\* (mutant) the loop of GetFailedCount compares with OpStatusRunning
GetFailedCount_Running ==
    Cardinality({i \in 1..Len(operations) : operations[i].Status = "running"})

\* GetFailedCount()
GetFailedCount ==
    Cardinality({i \in 1..Len(operations) : operations[i].Status = "failed"})

\* the operations HasPendingOperations looks for
PendingCount ==
    Cardinality({i \in 1..Len(operations) : operations[i].Status = "pending"})

\* C39: whenever no ExecuteAll call is in progress, no operation of the
\* queue has status running, and Count() is GetCompletedCount() plus
\* GetFailedCount() plus the number of pending operations.
C39_CountsAddUp ==
    mu = "unlocked" =>
        /\ \A i \in 1..Len(operations) : operations[i].Status # "running"
        /\ Len(operations) = GetCompletedCount + GetFailedCount + PendingCount

\* a run with stopOnError has ended on its second operation: one operation
\* is completed, one failed, one still pending
C39_Witness ==
    /\ mu = "unlocked"
    /\ pc = "returned"
    /\ stopOnError
    /\ Len(operations) = 3
    /\ GetCompletedCount = 1
    /\ GetFailedCount = 1
    /\ PendingCount = 1

----------------------------------------------------------------------------
\* OperationHistory

\* HistoryEntry: ID, Operation, Reversible, Reversed, UndoOperation. Timestamp,
\* Description and the disk, index, size and filesystem fields are written once
\* by Record* and never read by the history itself.
HistoryEntry(id, operation, reversible, undoOperation) ==
    [ID |-> id, Operation |-> operation, Reversible |-> reversible,
     Reversed |-> FALSE, UndoOperation |-> undoOperation]

NewOperationHistory ==
    /\ entries = <<>>
    /\ histNextID = 1
    /\ currentPos = -1
    /\ trail = <<>>

\* (mutant) Record* appends without cutting the entries behind the cursor
Truncate_None(es, pos) == es

\* if oh.currentPos < len(oh.entries)-1 { oh.entries = oh.entries[:oh.currentPos+1] }
Truncate(es, pos) ==
    IF pos < Len(es) - 1 THEN Slice(es, 0, pos + 1) ELSE es

\* The pre-state and the outcome of a call, kept for the last TrailLen calls.
Call(name, ok) ==
    [call |-> name, ok |-> ok, entries |-> entries, currentPos |-> currentPos,
     nextID |-> histNextID]

Remember(c) ==
    trail' = IF Len(trail) < TrailLen
             THEN Append(trail, c)
             ELSE Append(Tail(trail), c)

\* The body every Record* shares: truncate, append the entry, move the cursor
\* to it, count the ID.
Record(name, entry) ==
    /\ Len(Truncate(entries, currentPos)) < MaxHist
    /\ histNextID <= MaxHistID
    /\ entries' = Append(Truncate(entries, currentPos), entry)
    /\ currentPos' = Len(entries') - 1
    /\ histNextID' = histNextID + 1
    /\ Remember(Call(name, TRUE))
    /\ UNCHANGED <<batchVars, sideVars>>

RecordCreate == Record("RecordCreate", HistoryEntry(histNextID, "create", TRUE, "delete"))

RecordDelete == Record("RecordDelete", HistoryEntry(histNextID, "delete", FALSE, ""))

RecordFormat == Record("RecordFormat", HistoryEntry(histNextID, "format", FALSE, ""))

RecordResize == Record("RecordResize", HistoryEntry(histNextID, "resize", TRUE, "resize"))

RecordCopy == Record("RecordCopy", HistoryEntry(histNextID, "copy", FALSE, ""))

CanUndo(es, pos) ==
    IF pos < 0 THEN FALSE
    ELSE IF pos < Len(es) THEN At(es, pos).Reversible /\ ~At(es, pos).Reversed
    ELSE FALSE

CanRedo(es, pos) ==
    IF pos < Len(es) - 1 THEN At(es, pos + 1).Reversed ELSE FALSE

\* (mutant) the flag written is Reversible
SetReversed_Reversible(es, i, reversed) == [es EXCEPT ![i + 1].Reversible = reversed]

SetReversed(es, i, reversed) == [es EXCEPT ![i + 1].Reversed = reversed]

\* (mutant) the undo marks the entry but leaves the cursor on it
UndoResult_CursorStays(es, pos) ==
    IF pos < 0 \/ pos >= Len(es)
    THEN [ok |-> FALSE, entries |-> es, currentPos |-> pos]
    ELSE IF ~At(es, pos).Reversible \/ At(es, pos).Reversed
    THEN [ok |-> FALSE, entries |-> es, currentPos |-> pos]
    ELSE [ok |-> TRUE, entries |-> SetReversed(es, pos, TRUE), currentPos |-> pos]

\* (mutant) the undo does not look at Reversible
UndoResult_AnyKind(es, pos) ==
    IF pos < 0 \/ pos >= Len(es)
    THEN [ok |-> FALSE, entries |-> es, currentPos |-> pos]
    ELSE IF At(es, pos).Reversed
    THEN [ok |-> FALSE, entries |-> es, currentPos |-> pos]
    ELSE [ok |-> TRUE, entries |-> SetReversed(es, pos, TRUE), currentPos |-> pos - 1]

\* GetUndoOperation: the error returns leave everything as it is; otherwise
\* the entry at the cursor is marked reversed and the cursor steps back.
UndoResult(es, pos) ==
    IF pos < 0 \/ pos >= Len(es)
    THEN [ok |-> FALSE, entries |-> es, currentPos |-> pos]
    ELSE IF ~At(es, pos).Reversible
    THEN [ok |-> FALSE, entries |-> es, currentPos |-> pos]
    ELSE IF At(es, pos).Reversed
    THEN [ok |-> FALSE, entries |-> es, currentPos |-> pos]
    ELSE [ok |-> TRUE, entries |-> SetReversed(es, pos, TRUE), currentPos |-> pos - 1]

GetUndoOperation ==
    LET r == UndoResult(entries, currentPos) IN
    /\ entries' = r.entries
    /\ currentPos' = r.currentPos
    /\ Remember(Call("GetUndoOperation", r.ok))
    /\ UNCHANGED <<histNextID, batchVars, sideVars>>

\* (mutant) the redo moves the cursor but leaves the entry marked reversed
RedoResult_FlagStays(es, pos) ==
    IF pos >= Len(es) - 1
    THEN [ok |-> FALSE, entries |-> es, currentPos |-> pos]
    ELSE IF ~At(es, pos + 1).Reversed
    THEN [ok |-> FALSE, entries |-> es, currentPos |-> pos + 1]
    ELSE [ok |-> TRUE, entries |-> es, currentPos |-> pos + 1]

\* GetRedoOperation: the cursor is advanced before the entry is looked at, so
\* the "was not reversed" error returns with the cursor already moved.
RedoResult(es, pos) ==
    IF pos >= Len(es) - 1
    THEN [ok |-> FALSE, entries |-> es, currentPos |-> pos]
    ELSE IF ~At(es, pos + 1).Reversed
    THEN [ok |-> FALSE, entries |-> es, currentPos |-> pos + 1]
    ELSE [ok |-> TRUE, entries |-> SetReversed(es, pos + 1, FALSE), currentPos |-> pos + 1]

GetRedoOperation ==
    LET r == RedoResult(entries, currentPos) IN
    /\ entries' = r.entries
    /\ currentPos' = r.currentPos
    /\ Remember(Call("GetRedoOperation", r.ok))
    /\ UNCHANGED <<histNextID, batchVars, sideVars>>

OperationHistoryClear ==
    /\ entries' = <<>>
    /\ currentPos' = -1
    /\ Remember(Call("Clear", TRUE))
    /\ UNCHANGED <<histNextID, batchVars, sideVars>>

NextHist ==
    \/ RecordCreate
    \/ RecordDelete
    \/ RecordFormat
    \/ RecordResize
    \/ RecordCopy
    \/ GetUndoOperation
    \/ GetRedoOperation
    \/ OperationHistoryClear

\* if pos >= -1 && pos < len(oh.entries) { oh.currentPos = pos }
RestorePosition(es, cur, pos) ==
    IF pos >= -1 /\ pos < Len(es) THEN pos ELSE cur

\* (mutant) the rollback leaves the flag as the undo or redo set it
RestoreReversedState_None(es, entryID, reversed) == es

\* (mutant) the flag is written to every entry, whatever its ID
RestoreReversedState_All(es, entryID, reversed) ==
    [i \in 1..Len(es) |-> [es[i] EXCEPT !.Reversed = reversed]]

\* the first entry with this ID gets the flag
RestoreReversedState(es, entryID, reversed) ==
    IF IndexOfID(es, entryID) >= 0
    THEN SetReversed(es, IndexOfID(es, entryID), reversed)
    ELSE es

\* oh.RestorePosition(pos) called on the history; the trail starts anew with
\* a restore call
RestorePositionCall(pos) ==
    /\ currentPos' = RestorePosition(entries, currentPos, pos)
    /\ trail' = <<Call("RestorePosition", TRUE)>>
    /\ UNCHANGED <<entries, histNextID, batchVars, sideVars>>

\* oh.RestoreReversedState(entryID, reversed) called on the history
RestoreReversedStateCall(entryID, reversed) ==
    /\ entries' = RestoreReversedState(entries, entryID, reversed)
    /\ trail' = <<Call("RestoreReversedState", TRUE)>>
    /\ UNCHANGED <<currentPos, histNextID, batchVars, sideVars>>

\* the history with the two restore methods the cancel and rollback paths of
\* the main window call
NextRestore ==
    \/ RecordCreate
    \/ RecordDelete
    \/ GetUndoOperation
    \/ GetRedoOperation
    \/ \E pos \in -2..MaxHist : RestorePositionCall(pos)
    \/ \E entryID \in 1..MaxHistID, reversed \in BOOLEAN :
           RestoreReversedStateCall(entryID, reversed)

----------------------------------------------------------------------------
\* Properties of the OperationHistory (checked under SpecHist)

\* the k-th last call (k = 0: the last one)
Past(k) == trail[Len(trail) - k]

RecordCalls == {"RecordCreate", "RecordDelete", "RecordFormat", "RecordResize",
                "RecordCopy"}

\* C7: the cursor is -1 or the index of an entry, every entry up to the cursor
\* has Reversed = FALSE and every entry behind it has Reversed = TRUE.
C7_CursorSplitsReversed ==
    /\ -1 <= currentPos
    /\ currentPos < Len(entries)
    /\ \A i \in 0..(Len(entries) - 1) : At(entries, i).Reversed <=> (i > currentPos)

\* a redo has put the cursor on the middle one of three entries
C7_Witness ==
    /\ Len(trail) >= 1
    /\ Past(0).call = "GetRedoOperation" /\ Past(0).ok
    /\ Len(entries) = 3
    /\ currentPos = 1
    /\ At(entries, 2).Reversed

\* C8: a reversible record, a successful undo and a successful redo in a row
\* end in the state the record left: same entries (the entry not reversed),
\* same cursor, on that entry, CanUndo true and CanRedo false.
C8_UndoRedoRoundTrip ==
    (/\ Len(trail) >= 3
     /\ Past(2).call \in {"RecordCreate", "RecordResize"}
     /\ Past(1).call = "GetUndoOperation" /\ Past(1).ok
     /\ Past(0).call = "GetRedoOperation" /\ Past(0).ok)
    => /\ entries = Past(1).entries
       /\ currentPos = Past(1).currentPos
       /\ histNextID = Past(1).nextID
       /\ currentPos = Len(entries) - 1
       /\ At(entries, currentPos).ID = Past(2).nextID
       /\ ~At(entries, currentPos).Reversed
       /\ CanUndo(entries, currentPos)
       /\ ~CanRedo(entries, currentPos)

\* the round trip, started from a history that already held an entry
C8_Witness ==
    /\ Len(trail) >= 3
    /\ Past(2).call = "RecordResize"
    /\ Len(Past(2).entries) >= 1
    /\ Past(1).call = "GetUndoOperation" /\ Past(1).ok
    /\ Past(0).call = "GetRedoOperation" /\ Past(0).ok

\* C9: a record made while the cursor is not on the last entry cuts every
\* entry behind the cursor and appends the new one: the entries up to the old
\* cursor are kept, the new entry is the last, the cursor is on it and CanRedo
\* is false.
C9_RecordTruncatesRedo ==
    (/\ Len(trail) >= 1
     /\ Past(0).call \in RecordCalls
     /\ Past(0).currentPos < Len(Past(0).entries) - 1)
    => /\ Len(entries) = Past(0).currentPos + 2
       /\ Slice(entries, 0, Past(0).currentPos + 1)
              = Slice(Past(0).entries, 0, Past(0).currentPos + 1)
       /\ At(entries, Len(entries) - 1).ID = Past(0).nextID
       /\ ~At(entries, Len(entries) - 1).Reversed
       /\ currentPos = Len(entries) - 1
       /\ ~CanRedo(entries, currentPos)

\* a delete recorded after one of two entries was undone
C9_Witness ==
    /\ Len(trail) >= 1
    /\ Past(0).call = "RecordDelete"
    /\ Len(Past(0).entries) = 2
    /\ Past(0).currentPos = 0
    /\ CanRedo(Past(0).entries, Past(0).currentPos)
    /\ Len(entries) = 2

\* C10: GetUndoOperation succeeds exactly when CanUndo was true, and a failed
\* call leaves the entries and the cursor as they were.
C10_UndoIffCanUndo ==
    (Len(trail) >= 1 /\ Past(0).call = "GetUndoOperation")
    => /\ Past(0).ok <=> CanUndo(Past(0).entries, Past(0).currentPos)
       /\ ~Past(0).ok => (entries = Past(0).entries /\ currentPos = Past(0).currentPos)

\* an undo refused because the entry at the cursor is not reversible
C10_Witness ==
    /\ Len(trail) >= 1
    /\ Past(0).call = "GetUndoOperation"
    /\ ~Past(0).ok
    /\ currentPos >= 0
    /\ ~At(entries, currentPos).Reversible

\* C30: a GetRedoOperation call that returned an error (nothing behind the
\* cursor, or the entry behind the cursor not reversed) has left the history
\* as it was: the same cursor and the same entries with the same Reversed
\* flags.  (Checked under SpecRestore.)
C30_RedoErrorLeavesHistory ==
    (trail # <<>> /\ Past(0).call = "GetRedoOperation" /\ ~Past(0).ok)
    => /\ entries = Past(0).entries
       /\ currentPos = Past(0).currentPos

----------------------------------------------------------------------------
\* MainWindow (internal/ui/mainwindow.go): the undo and redo handlers, their
\* rollback after a failed external action, and the handlers that apply a
\* structural operation.  mw.history is an OperationHistory; its entries are
\* written through the Record* methods, one call per kind.

StructuralKinds == {"create", "delete", "format", "resize", "copy", "move"}

\* the entry each Record* method builds
EntryOfKind(id, kind) ==
    IF kind = "create" THEN HistoryEntry(id, "create", TRUE, "delete")
    ELSE IF kind = "resize" THEN HistoryEntry(id, "resize", TRUE, "resize")
    ELSE HistoryEntry(id, kind, FALSE, "")

RecordedKinds == {"create", "delete", "format", "resize", "copy"}

NewMainWindow ==
    /\ mwPhase = "idle"
    /\ mwEntryID = 0
    /\ mwOldPos = -1
    /\ mwRequest = [entries |-> <<>>, currentPos |-> -1]
    /\ mwLast = [op |-> "none", outcome |-> "none"]

Entered == mwRequest' = [entries |-> entries, currentPos |-> currentPos]

\* oh.RecordCreate / RecordDelete / RecordFormat / RecordResize / RecordCopy
\* called on mw.history while no confirm dialog is open
RecordEntry(kind) ==
    /\ mwPhase = "idle"
    /\ Len(Truncate(entries, currentPos)) < MaxHist
    /\ histNextID <= MaxHistID
    /\ entries' = Append(Truncate(entries, currentPos), EntryOfKind(histNextID, kind))
    /\ currentPos' = Len(entries') - 1
    /\ histNextID' = histNextID + 1
    /\ Entered
    /\ mwLast' = [op |-> "record", outcome |-> "done"]
    /\ UNCHANGED <<notMW, mwPhase, mwEntryID, mwOldPos, trail>>

\* performUndo up to the confirm dialog: CanUndo, GetUndoOperation, and the
\* locals entryID and oldPos (read after GetUndoOperation has moved the cursor)
performUndo ==
    /\ mwPhase = "idle"
    /\ Entered
    /\ LET r == UndoResult(entries, currentPos) IN
       IF ~CanUndo(entries, currentPos) \/ ~r.ok
       THEN /\ mwLast' = [op |-> "undo", outcome |-> "refused"]
            /\ UNCHANGED <<entries, currentPos, mwPhase, mwEntryID, mwOldPos>>
       ELSE /\ entries' = r.entries
            /\ currentPos' = r.currentPos
            /\ mwEntryID' = At(entries, currentPos).ID
            /\ mwOldPos' = r.currentPos
            /\ mwPhase' = "undoConfirm"
            /\ mwLast' = [op |-> "undo", outcome |-> "asked"]
    /\ UNCHANGED <<notMW, histNextID, trail>>

DialogEntry == At(entries, IndexOfID(entries, mwEntryID))

\* the callback has returned: the dialog and the locals it captured are gone
DialogClosed ==
    /\ mwPhase' = "idle"
    /\ mwEntryID' = 0
    /\ mwOldPos' = -1

\* the confirm callback with ok: executeUndo(entry).  commandOK is the result
\* of the external command the switch on entry.UndoOperation runs.
executeUndo(commandOK) ==
    /\ mwPhase = "undoConfirm"
    /\ LET err == IF DialogEntry.UndoOperation \in {"delete", "resize", "attribute"}
                  THEN ~commandOK
                  ELSE TRUE
       IN IF err
          THEN /\ entries' = RestoreReversedState(entries, DialogEntry.ID, FALSE)
               /\ currentPos' = RestorePosition(entries', currentPos, currentPos + 1)
               /\ mwLast' = [op |-> "undo", outcome |-> "failed"]
          ELSE /\ mwLast' = [op |-> "undo", outcome |-> "done"]
               /\ UNCHANGED <<entries, currentPos>>
    /\ DialogClosed
    /\ UNCHANGED <<notMW, histNextID, trail, mwRequest>>

\* the confirm callback without ok
cancelUndo ==
    /\ mwPhase = "undoConfirm"
    /\ entries' = RestoreReversedState(entries, mwEntryID, FALSE)
    /\ currentPos' = RestorePosition(entries', currentPos, mwOldPos)
    /\ mwLast' = [op |-> "undo", outcome |-> "cancelled"]
    /\ DialogClosed
    /\ UNCHANGED <<notMW, histNextID, trail, mwRequest>>

performRedo ==
    /\ mwPhase = "idle"
    /\ Entered
    /\ LET r == RedoResult(entries, currentPos) IN
       IF ~CanRedo(entries, currentPos)
       THEN /\ mwLast' = [op |-> "redo", outcome |-> "refused"]
            /\ UNCHANGED <<entries, currentPos, mwPhase, mwEntryID, mwOldPos>>
       ELSE IF ~r.ok
       THEN /\ entries' = r.entries
            /\ currentPos' = r.currentPos
            /\ mwLast' = [op |-> "redo", outcome |-> "refused"]
            /\ UNCHANGED <<mwPhase, mwEntryID, mwOldPos>>
       ELSE /\ entries' = r.entries
            /\ currentPos' = r.currentPos
            /\ mwEntryID' = At(entries, currentPos + 1).ID
            /\ mwOldPos' = r.currentPos
            /\ mwPhase' = "redoConfirm"
            /\ mwLast' = [op |-> "redo", outcome |-> "asked"]
    /\ UNCHANGED <<notMW, histNextID, trail>>

\* executeRedo(entry): the switch is on entry.Operation
executeRedo(commandOK) ==
    /\ mwPhase = "redoConfirm"
    /\ LET err == IF DialogEntry.Operation \in {"create", "resize", "attribute"}
                  THEN ~commandOK
                  ELSE TRUE
       IN IF err
          THEN /\ entries' = RestoreReversedState(entries, DialogEntry.ID, TRUE)
               /\ currentPos' = RestorePosition(entries', currentPos, currentPos - 1)
               /\ mwLast' = [op |-> "redo", outcome |-> "failed"]
          ELSE /\ mwLast' = [op |-> "redo", outcome |-> "done"]
               /\ UNCHANGED <<entries, currentPos>>
    /\ DialogClosed
    /\ UNCHANGED <<notMW, histNextID, trail, mwRequest>>

cancelRedo ==
    /\ mwPhase = "redoConfirm"
    /\ entries' = RestoreReversedState(entries, mwEntryID, TRUE)
    /\ currentPos' = RestorePosition(entries', currentPos, mwOldPos)
    /\ mwLast' = [op |-> "redo", outcome |-> "cancelled"]
    /\ DialogClosed
    /\ UNCHANGED <<notMW, histNextID, trail, mwRequest>>

\* What every handler that applies a structural operation does once its
\* dialog is confirmed: run the external command, show the error or the
\* success message, refresh the disks.  None of them touches mw.history.
Applies(kind, commandOK) ==
    /\ mwPhase = "idle"
    /\ Entered
    /\ mwLast' = [op |-> kind, outcome |-> IF commandOK THEN "done" ELSE "failed"]
    /\ UNCHANGED <<notMW, histVars, mwPhase, mwEntryID, mwOldPos>>

showNewPartitionDialog(commandOK) == Applies("create", commandOK)

showDeletePartitionDialog(commandOK) == Applies("delete", commandOK)

showFormatDialog(commandOK) == Applies("format", commandOK)

performResize(commandOK) == Applies("resize", commandOK)

\* CopyDialog.performOperation; operation is "copy" or "move"
performOperation(operation, commandOK) == Applies(operation, commandOK)

\* undo and redo on a history that is being written
NextMW ==
    \/ \E kind \in RecordedKinds : RecordEntry(kind)
    \/ performUndo
    \/ \E commandOK \in BOOLEAN : executeUndo(commandOK)
    \/ cancelUndo
    \/ performRedo
    \/ \E commandOK \in BOOLEAN : executeRedo(commandOK)
    \/ cancelRedo

\* the handlers that apply structural operations, on a history that is being
\* written
NextApply ==
    \/ \E kind \in RecordedKinds : RecordEntry(kind)
    \/ \E commandOK \in BOOLEAN : showNewPartitionDialog(commandOK)
    \/ \E commandOK \in BOOLEAN : showDeletePartitionDialog(commandOK)
    \/ \E commandOK \in BOOLEAN : showFormatDialog(commandOK)
    \/ \E commandOK \in BOOLEAN : performResize(commandOK)
    \/ \E operation \in {"copy", "move"}, commandOK \in BOOLEAN :
           performOperation(operation, commandOK)

----------------------------------------------------------------------------
\* Properties of the main window's history handling (C11, C12 checked under
\* SpecMW, C13 under SpecApply)

\* C11: an entry's Reversible flag is fixed by its kind when it is recorded
\* (TRUE for create and resize, FALSE for delete, format and copy), and no
\* step (undo, redo, rollback, cancel, truncation of other entries) changes
\* the flag of an entry that stays in the history.
C11_ReversibleFixed ==
    [][\A i \in 1..Len(entries') :
          IF \E j \in 1..Len(entries) : entries[j].ID = entries'[i].ID
          THEN \A j \in 1..Len(entries) :
                   entries[j].ID = entries'[i].ID
                   => entries'[i].Reversible = entries[j].Reversible
          ELSE entries'[i].Reversible
                   = (entries'[i].Operation \in {"create", "resize"})]_vars

\* a confirmed undo has gone through on a history that also holds an entry
\* of a kind that is not reversible
C11_Witness ==
    /\ mwLast = [op |-> "undo", outcome |-> "done"]
    /\ \E i \in 1..Len(entries) : entries[i].Reversible /\ entries[i].Reversed
    /\ \E i \in 1..Len(entries) : ~entries[i].Reversible

\* C12: when the external action of a confirmed undo or redo fails, the
\* rollback leaves the history as it was when the undo or redo was requested:
\* the same cursor and the same Reversed flag (the same entries).
C12_RollbackRestores ==
    (mwLast.op \in {"undo", "redo"} /\ mwLast.outcome = "failed")
    => /\ entries = mwRequest.entries
       /\ currentPos = mwRequest.currentPos

\* a redo of the middle one of three entries has failed and been rolled back
C12_Witness ==
    /\ mwLast = [op |-> "redo", outcome |-> "failed"]
    /\ Len(entries) = 3
    /\ currentPos = 0
    /\ At(entries, 1).Reversed
    /\ At(entries, 2).Reversed

\* C13: a structural operation applied with success has appended one entry of
\* its kind to the history.
C13_AppliedIsRecorded ==
    (mwLast.op \in StructuralKinds /\ mwLast.outcome = "done")
    => /\ Len(entries) = Len(Truncate(mwRequest.entries, mwRequest.currentPos)) + 1
       /\ entries[Len(entries)].Operation = mwLast.op
       /\ currentPos = Len(entries) - 1

\* C38: no history entry whose Reversible flag is false ever has Reversed
\* set, whatever records, undos, redos, cancels and failure rollbacks the
\* main window has gone through.
C38_IrreversibleNeverReversed ==
    \A i \in 1..Len(entries) : ~entries[i].Reversible => ~entries[i].Reversed

\* beside an entry that is not reversible, a redo was asked for and then
\* cancelled: the entry it was about is marked reversed again
C38_Witness ==
    /\ mwLast = [op |-> "redo", outcome |-> "cancelled"]
    /\ \E i \in 1..Len(entries) : ~entries[i].Reversible
    /\ \E i \in 1..Len(entries) : entries[i].Reversible /\ entries[i].Reversed

\* C27: when the confirmation of an undo or of a redo is cancelled, the
\* history is again as it was when the undo or redo was requested: the same
\* cursor and the same Reversed flags, so that the same undo or redo is
\* available again.  (Checked under SpecMW.)
C27_CancelRestores ==
    (mwLast.op \in {"undo", "redo"} /\ mwLast.outcome = "cancelled")
    => /\ entries = mwRequest.entries
       /\ currentPos = mwRequest.currentPos
       /\ mwLast.op = "undo" => CanUndo(entries, currentPos)
       /\ mwLast.op = "redo" => CanRedo(entries, currentPos)

----------------------------------------------------------------------------
\* The resize paths: ResizeDialog (internal/ui/resizedialog.go), the batch
\* dialog's queued resize (internal/ui/partitionview.go, BatchQueue
\* .executeOperation) and the command line (internal/cli/cli.go).
\* disk.Size is in bytes (partition.go parses it from "Mediasize:");
\* Partition.Start and Partition.Size are in sectors (from "gpart show").

SectorSize == 512

MiB == 1024 * 1024

GiB == 1024 * 1024 * 1024

minSizeMB == 10

SectorsPerMiB == MiB \div SectorSize

\* the starts a layout draws from: 1 MiB and the multiples of StartGridMiB
StartChoices(diskMiB) ==
    {SectorsPerMiB} \cup
    {k * StartGridMiB * SectorsPerMiB : k \in 1..((diskMiB - 1) \div StartGridMiB)}

RECURSIVE Ascending(_)
Ascending(S) ==
    IF S = {} THEN <<>>
    ELSE LET m == CHOOSE x \in S : \A y \in S : x <= y
         IN <<m>> \o Ascending(S \ {m})

\* the partitions "gpart show" lists for these starts: in ascending order of
\* Start, each reaching to the next one (or to the end of the disk) or to the
\* middle of that gap
Layouts(diskMiB) ==
    UNION { LET st  == Ascending(S)
                end == [i \in 1..Len(st) |->
                           IF i < Len(st) THEN st[i + 1] ELSE diskMiB * SectorsPerMiB]
            IN { [i \in 1..Len(st) |->
                     [Start |-> st[i],
                      Size  |-> IF i \in half THEN (end[i] - st[i]) \div 2
                                ELSE end[i] - st[i]]] :
                 half \in SUBSET (1..Len(st)) }
          : S \in {T \in SUBSET StartChoices(diskMiB) :
                       T # {} /\ Cardinality(T) <= MaxParts} }

Disks ==
    UNION { { [Size |-> diskMiB * MiB, Partitions |-> ps] : ps \in Layouts(diskMiB) }
            : diskMiB \in {MaxDiskMiB \div 2, MaxDiskMiB} }

NoRequest == [path |-> "none", request |-> 0, verdict |-> "none"]

NoDisk == [Size |-> 0, Partitions |-> <<>>]

\* before the first scan: no disk, no partition chosen
InitResize ==
    /\ disk = NoDisk
    /\ selected = -1
    /\ maxSize = -1
    /\ queuedSize = -1
    /\ gpartResizes = <<>>
    /\ resizeLast = NoRequest

\* partition.GetDisks and the choice of the partition to resize: a scan
\* brings a disk with its partitions, and the dialogs are opened anew on it
GetDisks(d, index) ==
    /\ disk' = d
    /\ selected' = index
    /\ maxSize' = -1
    /\ queuedSize' = -1
    /\ gpartResizes' = <<>>
    /\ resizeLast' = NoRequest
    /\ UNCHANGED notResize

RECURSIVE MaxSizeLoop(_, _, _, _)
\* the range loop of calculateMaxSize from the k-th partition on
MaxSizeLoop(ps, k, start, max) ==
    IF k >= Len(ps) THEN max
    ELSE IF At(ps, k).Start > start /\ At(ps, k).Start < start + max
    THEN MaxSizeLoop(ps, k + 1, start, At(ps, k).Start - start)
    ELSE MaxSizeLoop(ps, k + 1, start, max)

\* maxSize := rd.disk.Size - rd.partition.Start, then the loop
calculateMaxSize(d, part) ==
    MaxSizeLoop(d.Partitions, 0, part.Start, d.Size - part.Start)

\* sectors * 512 / (1024 * 1024) in uint64: the product does not wrap below
\* 2^55 sectors, so the quotient is sectors / 2048
SectorsToMB(sectors) == sectors \div (MiB \div SectorSize)

currentSizeMB == SectorsToMB(At(disk.Partitions, selected).Size)

maxSizeMB == SectorsToMB(maxSize)

\* (mutant) the upper bound itself is refused
InBounds_Exclusive(sizeMB, min, max) == ~(sizeMB < min \/ sizeMB >= max)

\* if sizeMB < minSizeMB || sizeMB > maxSizeMB { error }
InBounds(sizeMB, min, max) == ~(sizeMB < min \/ sizeMB > max)

\* ResizePartition: CheckPrivileges, then "gpart resize -s <newSize/(1024*1024)>M".
\* sizeM is newSize / (1024 * 1024); the result is the commands run.
ResizePartition(root, sizeM) ==
    IF ~root THEN <<>> ELSE <<[cmd |-> "gpart resize", sizeM |-> sizeM]>>

\* ResizeDialog.Show up to d.Show(): the bounds the dialog works with
Show ==
    /\ selected >= 0
    /\ maxSize = -1
    /\ maxSize' = calculateMaxSize(disk, At(disk.Partitions, selected))
    /\ UNCHANGED <<notResize, disk, selected, queuedSize, gpartResizes, resizeLast>>

\* The confirm callback of the dialog with the text sizeMB in the entry.
\* performResize(sizeMB*1024*1024, ...) hands ResizePartition a size whose
\* quotient by 1024*1024 is sizeMB.  An online resize that CanResizeOnline
\* refuses runs no command.
confirm(sizeMB, root, useOnlineResize, canResize) ==
    /\ maxSize # -1
    /\ IF ~InBounds(sizeMB, minSizeMB, maxSizeMB)
       THEN /\ resizeLast' = [path |-> "dialog", request |-> sizeMB, verdict |-> "rejected"]
            /\ gpartResizes' = <<>>
       ELSE IF sizeMB = currentSizeMB
       THEN /\ resizeLast' = [path |-> "dialog", request |-> sizeMB, verdict |-> "unchanged"]
            /\ gpartResizes' = <<>>
       ELSE /\ resizeLast' = [path |-> "dialog", request |-> sizeMB, verdict |-> "resize"]
            /\ gpartResizes' = IF useOnlineResize /\ ~canResize
                               THEN <<>>
                               ELSE ResizePartition(root, sizeMB)
    /\ UNCHANGED <<notResize, disk, selected, maxSize, queuedSize>>

\* the sizes tried in the dialog: around the floor, the current size, around
\* the dialog's maximum
DialogRequests ==
    IF maxSize = -1 THEN {}
    ELSE {minSizeMB - 1, minSizeMB, currentSizeMB, maxSizeMB, maxSizeMB + 1}

\* BatchDialog.showAddResizeDialog: any sizeGB > 0 is queued, as bytes
showAddResizeDialog(sizeGB) ==
    /\ selected >= 0
    /\ IF sizeGB <= 0
       THEN /\ resizeLast' = [path |-> "batch", request |-> sizeGB, verdict |-> "rejected"]
            /\ UNCHANGED queuedSize
       ELSE /\ resizeLast' = [path |-> "batch", request |-> sizeGB, verdict |-> "queued"]
            /\ queuedSize' = sizeGB * GiB
    /\ gpartResizes' = <<>>
    /\ UNCHANGED <<notResize, disk, selected, maxSize>>

\* BatchQueue.executeOperation, case OpResize: ResizePartition(op.Disk, op.Index, op.Size)
executeOperationResize(root) ==
    /\ queuedSize # -1
    /\ gpartResizes' = ResizePartition(root, queuedSize \div MiB)
    /\ resizeLast' = [path |-> "batch", request |-> queuedSize \div GiB, verdict |-> "resize"]
    /\ UNCHANGED <<notResize, disk, selected, maxSize, queuedSize>>

\* parseSize on a number with an optional suffix; -1 is the error return
parseSize(num, suffix) ==
    LET multiplier == IF suffix = "G" THEN GiB
                      ELSE IF suffix = "M" THEN MiB
                      ELSE IF suffix = "K" THEN 1024
                      ELSE 1
    IN IF num <= 0 THEN -1 ELSE num * multiplier

\* CLI.resizeCommand <disk> <index> <size>
resizeCommand(num, suffix, root) ==
    /\ selected >= 0
    /\ IF parseSize(num, suffix) = -1
       THEN /\ resizeLast' = [path |-> "cli", request |-> num, verdict |-> "rejected"]
            /\ gpartResizes' = <<>>
       ELSE /\ resizeLast' = [path |-> "cli", request |-> num, verdict |-> "resize"]
            /\ gpartResizes' = ResizePartition(root, parseSize(num, suffix) \div MiB)
    /\ UNCHANGED <<notResize, disk, selected, maxSize, queuedSize>>

\* the size arguments tried on the command line
CliSizes == {<<0, "M">>, <<1, "M">>, <<12, "M">>, <<1, "G">>, <<512, "K">>, <<4096, "">>}

\* the sizes typed into the batch dialog, in GB
BatchSizesGB == {0, 1}

NextResize ==
    \/ \E d \in Disks : \E index \in 0..(Len(d.Partitions) - 1) : GetDisks(d, index)
    \/ Show
    \/ \E sizeMB \in DialogRequests, root, useOnlineResize, canResize \in BOOLEAN :
           confirm(sizeMB, root, useOnlineResize, canResize)
    \/ \E sizeGB \in BatchSizesGB : showAddResizeDialog(sizeGB)
    \/ \E root \in BOOLEAN : executeOperationResize(root)
    \/ \E size \in CliSizes, root \in BOOLEAN : resizeCommand(size[1], size[2], root)

----------------------------------------------------------------------------
\* Properties of the resize paths (checked under SpecResize)

\* the sectors of the disk
DiskSectors == disk.Size \div SectorSize

LaterStarts(part) ==
    {p.Start : p \in {disk.Partitions[i] : i \in 1..Len(disk.Partitions)}} \cap
    {s \in 0..DiskSectors : s > part.Start}

\* the ceiling of section 4.3: the least later Start, or the end of the disk
MaxResizeSize(part) ==
    IF LaterStarts(part) # {}
    THEN (CHOOSE s \in LaterStarts(part) : \A t \in LaterStarts(part) : s <= t) - part.Start
    ELSE DiskSectors - part.Start

\* C14: calculateMaxSize returns, in sectors, the least later Start minus the
\* partition's Start, or the end of the disk in sectors minus the Start when
\* no partition starts later.
C14_MaxSizeInSectors ==
    maxSize # -1 => maxSize = MaxResizeSize(At(disk.Partitions, selected))

\* C15: no path runs the resize command with a size below the 10 MiB floor
\* or above MaxResizeSize.
C15_CommandWithinBounds ==
    \A i \in 1..Len(gpartResizes) :
        /\ gpartResizes[i].sizeM >= minSizeMB
        /\ gpartResizes[i].sizeM * SectorsPerMiB
               <= MaxResizeSize(At(disk.Partitions, selected))

\* C16 as stated: in every layout a request of exactly the dialog's maximum
\* passes the bounds validation.
C16_Original ==
    (resizeLast.path = "dialog" /\ resizeLast.request = maxSizeMB)
    => resizeLast.verdict # "rejected"

\* C16: in every layout whose maximum is not below the 10 MB floor, a request
\* of exactly the dialog's maximum passes the bounds validation.
C16_Amended ==
    (resizeLast.path = "dialog" /\ resizeLast.request = maxSizeMB
        /\ maxSizeMB >= minSizeMB)
    => resizeLast.verdict # "rejected"

\* the maximum of a partition bounded by its successor was asked for and
\* went to the resize command
C16_Witness ==
    /\ resizeLast.path = "dialog"
    /\ resizeLast.request = maxSizeMB
    /\ resizeLast.verdict = "resize"
    /\ selected < Len(disk.Partitions) - 1
    /\ Len(gpartResizes) = 1
    /\ gpartResizes[1].sizeM = maxSizeMB

----------------------------------------------------------------------------
\* Alignment (internal/partition/attributes.go)

Align4K == 4096

Align128K == 131072

Align1M == 1048576

Align4M == 4194304

\* byte offsets on and off each boundary
Offsets ==
    { a * Align4M + b * Align1M + c * Align128K + d * Align4K + e * SectorSize :
      a \in 0..MaxAlignMult, b \in 0..1, c \in 0..1, d \in 0..1, e \in 0..1 }

\* Strings the code searches are sequences of characters.
RotationRateMark ==
    <<"#", " ", "R", "o", "t", "a", "t", "i", "o", "n", " ", "r", "a", "t", "e">>

NonRotatingMark ==
    <<"n", "o", "n", "-", "r", "o", "t", "a", "t", "i", "n", "g">>

ZeroMark == <<"0">>

\* strings.Contains
Contains(s, substr) ==
    \E i \in 0..(Len(s) - Len(substr)) : SubSeq(s, i + 1, i + Len(substr)) = substr

DigitChar(d) == <<"0", "1", "2", "3", "4", "5", "6", "7", "8", "9">>[d + 1]

RECURSIVE Decimal(_)
\* a number as "diskinfo" prints it
Decimal(n) ==
    IF n < 10 THEN <<DigitChar(n)>> ELSE Decimal(n \div 10) \o <<DigitChar(n % 10)>>

\* the rotation rates of the devices tried, in RPM; 0 is non-rotating media
RotationRates == {0, 5411, 7200, 15000}

\* The line "diskinfo -v" prints for the rotation rate: the rate, or "Unknown"
\* when the device does not report one (rate -1), before "# Rotation rate in RPM".
RateLine(rate) ==
    (IF rate = -1 THEN <<"U", "n", "k", "n", "o", "w", "n">> ELSE Decimal(rate))
    \o <<" ">> \o RotationRateMark \o <<" ", "i", "n", " ", "R", "P", "M">>

\* what the command can come back with: it fails, it prints the rate line of
\* the device, or it describes the device in words
DiskinfoResults ==
    {[err |-> TRUE, rate |-> r, output |-> <<>>] : r \in RotationRates}
    \cup {[err |-> FALSE, rate |-> r, output |-> RateLine(r)] : r \in RotationRates \cup {-1}}
    \cup {[err |-> FALSE, rate |-> 0, output |-> NonRotatingMark]}

NoAlignment == [IsAligned |-> FALSE, AlignmentType |-> ""]

NoDiskinfo == [err |-> TRUE, rate |-> -1, output |-> <<>>]

\* nothing has been classified yet
InitAlign ==
    /\ offset = 0
    /\ diskinfoOutput = NoDiskinfo
    /\ alignment = NoAlignment
    /\ optimal = 0

\* (mutant) the boundaries are tried from the weakest up
checkAlignment_WeakestFirst(o) ==
    IF o % Align4K = 0 THEN [IsAligned |-> TRUE, AlignmentType |-> "4 KiB aligned"]
    ELSE IF o % Align128K = 0 THEN [IsAligned |-> TRUE, AlignmentType |-> "128 KiB aligned"]
    ELSE IF o % Align1M = 0 THEN [IsAligned |-> TRUE, AlignmentType |-> "1 MiB aligned"]
    ELSE IF o % Align4M = 0 THEN [IsAligned |-> TRUE, AlignmentType |-> "4 MiB aligned"]
    ELSE [IsAligned |-> FALSE, AlignmentType |-> "Misaligned"]

checkAlignment(o) ==
    IF o % Align4M = 0 THEN [IsAligned |-> TRUE, AlignmentType |-> "4 MiB aligned"]
    ELSE IF o % Align1M = 0 THEN [IsAligned |-> TRUE, AlignmentType |-> "1 MiB aligned"]
    ELSE IF o % Align128K = 0 THEN [IsAligned |-> TRUE, AlignmentType |-> "128 KiB aligned"]
    ELSE IF o % Align4K = 0 THEN [IsAligned |-> TRUE, AlignmentType |-> "4 KiB aligned"]
    ELSE [IsAligned |-> FALSE, AlignmentType |-> "Misaligned"]

\* info.IsAligned, info.AlignmentType, ... = checkAlignment(startBytes)
CheckAlignmentCall(startBytes) ==
    /\ offset' = startBytes
    /\ alignment' = checkAlignment(startBytes)
    /\ UNCHANGED <<notAlign, diskinfoOutput, optimal>>

\* err == nil and (Contains "non-rotating" || Contains "# Rotation rate" &&
\* Contains "0"): && binds tighter than ||
GetOptimalAlignment(result) ==
    IF ~result.err
       /\ (Contains(result.output, NonRotatingMark)
           \/ (Contains(result.output, RotationRateMark)
               /\ Contains(result.output, ZeroMark)))
    THEN Align4M
    ELSE Align1M

\* the call with what "diskinfo -v" came back with
GetOptimalAlignmentCall(result) ==
    /\ diskinfoOutput' = result
    /\ optimal' = GetOptimalAlignment(result)
    /\ UNCHANGED <<notAlign, offset, alignment>>

NextAlign ==
    \/ \E startBytes \in Offsets : CheckAlignmentCall(startBytes)
    \/ \E result \in DiskinfoResults : GetOptimalAlignmentCall(result)

----------------------------------------------------------------------------
\* Properties of the alignment functions (checked under SpecAlign)

Boundaries == {Align4M, Align1M, Align128K, Align4K}

Dividing(o) == {b \in Boundaries : o % b = 0}

Largest(S) == CHOOSE b \in S : \A c \in S : c <= b

TypeOf(b) ==
    IF b = Align4M THEN "4 MiB aligned"
    ELSE IF b = Align1M THEN "1 MiB aligned"
    ELSE IF b = Align128K THEN "128 KiB aligned"
    ELSE "4 KiB aligned"

\* C17: checkAlignment reports the largest of 4 MiB, 1 MiB, 128 KiB, 4 KiB
\* that divides the offset (4 MiB for every multiple of 4 MiB, 0 included),
\* and reports the offset misaligned exactly when 4 KiB does not divide it.
C17_LargestBoundary ==
    alignment # NoAlignment
    => /\ alignment.IsAligned <=> (offset % Align4K = 0)
       /\ ~alignment.IsAligned => alignment.AlignmentType = "Misaligned"
       /\ alignment.IsAligned
              => alignment.AlignmentType = TypeOf(Largest(Dividing(offset)))
       /\ offset % Align4M = 0 => alignment.AlignmentType = "4 MiB aligned"

\* a non-zero multiple of 4 MiB has been classified
C17_Witness ==
    /\ offset = Align4M
    /\ alignment = [IsAligned |-> TRUE, AlignmentType |-> "4 MiB aligned"]

\* C18: GetOptimalAlignment returns 4 MiB only for non-rotating media; for
\* rotating media (a rotation rate other than 0) and when the detection
\* fails it returns 1 MiB.
C18_FourMiBOnlyNonRotating ==
    optimal # 0
    => /\ optimal = Align4M => (~diskinfoOutput.err /\ diskinfoOutput.rate = 0)
       /\ (diskinfoOutput.err \/ diskinfoOutput.rate > 0) => optimal = Align1M

----------------------------------------------------------------------------
\* CopyPartition (package partition, copy.go)

PartNames == {"ada0p1", "ada0p2", "ada1p1"}

\* What "diskinfo /dev/<part>" can come back with: the command fails, or it
\* prints fields.  The third field is the media size in bytes; a negative
\* number stands for a field strconv.ParseUint does not take.
DiskinfoAnswers ==
    {[err |-> TRUE, fields |-> <<>>]}
    \cup {[err |-> FALSE, fields |-> <<"dev", SectorSize>>]}
    \cup {[err |-> FALSE, fields |-> <<"dev", SectorSize, -1, 0>>]}
    \cup {[err |-> FALSE, fields |-> <<"dev", SectorSize, k * SectorSize, k>>] :
          k \in 1..MaxCopySectors}

\* getPartitionSize on the answer of its diskinfo command
getPartitionSize(answer) ==
    IF answer.err THEN [err |-> "failed to get partition info", size |-> 0]
    ELSE IF Len(answer.fields) < 3
    THEN [err |-> "unexpected diskinfo output format", size |-> 0]
    ELSE IF At(answer.fields, 2) < 0
    THEN [err |-> "failed to parse partition size", size |-> 0]
    ELSE [err |-> "", size |-> At(answer.fields, 2)]

Diskinfo(partName) == [cmd |-> "diskinfo", part |-> partName]

Dd(sourcePart, destPart) == [cmd |-> "dd", part |-> destPart]

\* (mutant) copying a partition onto itself is let through
SameParts_Never(sourcePart, destPart) == FALSE

\* if sourcePart == destPart
SameParts(sourcePart, destPart) == sourcePart = destPart

\* (mutant) any destination is taken as large enough
TooSmall_Never(destSize, sourceSize) == FALSE

\* if destSize < sourceSize
TooSmall(destSize, sourceSize) == destSize < sourceSize

\* CopyPartition from its first line to its return: the error returned and
\* the subprocesses started on the way.  c holds the arguments and what the
\* environment answers: the effective user, the two diskinfo answers, whether
\* dd starts and whether it ends well.
CopyResult(c) ==
    LET src == getPartitionSize(c.sourceAnswer)
        dst == getPartitionSize(c.destAnswer)
    IN IF ~c.root
       THEN [err |-> "requires root privileges", run |-> <<>>]
       ELSE IF SameParts(c.sourcePart, c.destPart)
       THEN [err |-> "source and destination cannot be the same", run |-> <<>>]
       ELSE IF src.err # ""
       THEN [err |-> "failed to get source partition size",
             run |-> <<Diskinfo(c.sourcePart)>>]
       ELSE IF dst.err # ""
       THEN [err |-> "failed to get destination partition size",
             run |-> <<Diskinfo(c.sourcePart), Diskinfo(c.destPart)>>]
       ELSE IF TooSmall(dst.size, src.size)
       THEN [err |-> "destination partition is too small",
             run |-> <<Diskinfo(c.sourcePart), Diskinfo(c.destPart)>>]
       ELSE IF ~c.ddStarts
       THEN [err |-> "failed to start dd command",
             run |-> <<Diskinfo(c.sourcePart), Diskinfo(c.destPart)>>]
       ELSE [err |-> IF c.ddOK THEN "" ELSE "partition copy failed",
             run |-> <<Diskinfo(c.sourcePart), Diskinfo(c.destPart),
                       Dd(c.sourcePart, c.destPart)>>]

NoCall ==
    [root |-> FALSE, sourcePart |-> "", destPart |-> "",
     sourceAnswer |-> [err |-> TRUE, fields |-> <<>>],
     destAnswer |-> [err |-> TRUE, fields |-> <<>>],
     ddStarts |-> FALSE, ddOK |-> FALSE]

InitCopy ==
    /\ copyCall = NoCall
    /\ subprocesses = <<>>
    /\ copyErr = "not called"

CopyPartition(c) ==
    /\ copyCall' = c
    /\ subprocesses' = CopyResult(c).run
    /\ copyErr' = CopyResult(c).err
    /\ UNCHANGED notCopy

CopyCalls ==
    [root : BOOLEAN, sourcePart : PartNames, destPart : PartNames,
     sourceAnswer : DiskinfoAnswers, destAnswer : DiskinfoAnswers,
     ddStarts : BOOLEAN, ddOK : BOOLEAN]

NextCopy ==
    \E c \in CopyCalls : CopyPartition(c)

----------------------------------------------------------------------------
\* Properties of CopyPartition (checked under SpecCopy)

Called == copyErr # "not called"

\* the block copy was started, so the destination may have been written
DdStarted == \E i \in 1..Len(subprocesses) : subprocesses[i].cmd = "dd"

SourceSize == getPartitionSize(copyCall.sourceAnswer)

DestSize == getPartitionSize(copyCall.destAnswer)

\* the call got as far as comparing two sizes and the destination's is smaller
DestSmaller ==
    /\ Called
    /\ copyCall.root
    /\ copyCall.sourcePart # copyCall.destPart
    /\ SourceSize.err = ""
    /\ DestSize.err = ""
    /\ DestSize.size < SourceSize.size

\* C19: when source and destination are the same partition, when a size
\* query fails or when the destination is smaller than the source, the call
\* returns an error and the block copy is never started.
C19_NoCopyWhenUnfit ==
    (Called /\ (\/ copyCall.sourcePart = copyCall.destPart
                \/ SourceSize.err # ""
                \/ DestSize.err # ""
                \/ DestSize.size < SourceSize.size))
    => (copyErr # "" /\ ~DdStarted)

\* a call as root on one and the same partition, with dd ready to run
C19_Witness ==
    /\ Called
    /\ copyCall.root
    /\ copyCall.sourcePart = copyCall.destPart
    /\ SourceSize.err = ""
    /\ DestSize.err = ""
    /\ copyCall.ddStarts
    /\ copyErr = "source and destination cannot be the same"

----------------------------------------------------------------------------
\* MovePartition (package partition, copy.go) and the Move Partition dialog
\* (CopyDialog with operation "move", internal/ui/partitionview.go)

DiskNames == {"ada0", "ada1"}

PartIndexes == {"1", "2"}

\* fmt.Sprintf("%sp%s", disk, index)
PartName(diskName, index) == diskName \o "p" \o index

GpartDelete(diskName, index) == [cmd |-> "gpart delete", part |-> PartName(diskName, index)]

\* DeletePartition(disk, index): the error returned and the subprocess started
DeletePartition(root, diskName, index, deleteOK) ==
    IF ~root
    THEN [err |-> "requires root privileges", run |-> <<>>]
    ELSE [err |-> IF deleteOK THEN "" ELSE "failed to delete partition",
          run |-> <<GpartDelete(diskName, index)>>]

\* the CopyPartition call of a move: the same effective user and environment
CopyOf(m) ==
    [root |-> m.root,
     sourcePart |-> PartName(m.sourceDisk, m.sourceIndex),
     destPart |-> PartName(m.destDisk, m.destIndex),
     sourceAnswer |-> m.sourceAnswer, destAnswer |-> m.destAnswer,
     ddStarts |-> m.ddStarts, ddOK |-> m.ddOK]

\* (mutant) the source is deleted whatever CopyPartition returned
CopyFailed_Never(err) == FALSE

\* if err := CopyPartition(...); err != nil
CopyFailed(err) == err # ""

\* MovePartition from its first line to its return
MovePartitionResult(m) ==
    LET copy == CopyResult(CopyOf(m))
        del  == DeletePartition(m.root, m.sourceDisk, m.sourceIndex, m.deleteOK)
    IN IF ~m.root
       THEN [err |-> "requires root privileges", run |-> <<>>]
       ELSE IF CopyFailed(copy.err)
       THEN [err |-> "failed to copy partition", run |-> copy.run]
       ELSE IF del.err # ""
       THEN [err |-> "copy succeeded but failed to delete source partition",
             run |-> copy.run \o del.run]
       ELSE [err |-> "", run |-> copy.run \o del.run]

NoMove ==
    [by |-> "none", operation |-> "", root |-> FALSE,
     sourceDisk |-> "", sourceIndex |-> "", destDisk |-> "", destIndex |-> "",
     sourceAnswer |-> [err |-> TRUE, fields |-> <<>>],
     destAnswer |-> [err |-> TRUE, fields |-> <<>>],
     ddStarts |-> FALSE, ddOK |-> FALSE, deleteOK |-> FALSE]

InitMove ==
    /\ moveCall = NoMove
    /\ moveRun = <<>>
    /\ moveErr = "not called"

\* one call is looked at at a time: the next one starts once the caller has
\* taken the result of the last
MovePartition(m) ==
    /\ moveErr = "not called"
    /\ m.by = "MovePartition"
    /\ moveCall' = m
    /\ moveRun' = MovePartitionResult(m).run
    /\ moveErr' = MovePartitionResult(m).err
    /\ UNCHANGED notMove

\* CopyDialog.performOperation(source, dest) once the confirmation is given:
\* both branches of cd.operation call partition.CopyPartition(source, dest)
CopyDialogPerformOperation(m) ==
    /\ moveErr = "not called"
    /\ m.by = "CopyDialog"
    /\ moveCall' = m
    /\ moveRun' = CopyResult(CopyOf(m)).run
    /\ moveErr' = CopyResult(CopyOf(m)).err
    /\ UNCHANGED notMove

\* the caller (the dialog's goroutine) has shown the result
MoveReturned ==
    /\ moveErr # "not called"
    /\ moveCall' = NoMove
    /\ moveRun' = <<>>
    /\ moveErr' = "not called"
    /\ UNCHANGED notMove

\* the calls: their arguments and what the environment answers
MoveCalls(by, operations_) ==
    [by : {by}, operation : operations_, root : BOOLEAN,
     sourceDisk : DiskNames, sourceIndex : PartIndexes,
     destDisk : DiskNames, destIndex : PartIndexes,
     sourceAnswer : DiskinfoAnswers, destAnswer : DiskinfoAnswers,
     ddStarts : BOOLEAN, ddOK : BOOLEAN, deleteOK : BOOLEAN]

NextMove ==
    \/ \E m \in MoveCalls("MovePartition", {"move"}) : MovePartition(m)
    \/ MoveReturned

\* the dialog lets the confirmation through only for two different partitions
\* (partitionview.go:385); the environment is one where gpart delete would
\* succeed
NextMoveDialog ==
    \/ /\ moveErr = "not called"
       /\ \E m \in MoveCalls("CopyDialog", {"copy", "move"}) :
              /\ PartName(m.sourceDisk, m.sourceIndex) # PartName(m.destDisk, m.destIndex)
              /\ m.deleteOK
              /\ CopyDialogPerformOperation(m)
    \/ MoveReturned

----------------------------------------------------------------------------
\* Properties of the move (C21 checked under SpecMove, C22 under
\* SpecMoveDialog)

Moved == moveErr # "not called"

\* what CopyPartition returned in the last move
MoveCopyErr == CopyResult(CopyOf(moveCall)).err

\* the positions in moveRun of the deletion of the source partition
SourceDeletions ==
    {p \in 1..Len(moveRun) :
         moveRun[p] = GpartDelete(moveCall.sourceDisk, moveCall.sourceIndex)}

\* the positions in moveRun of a deletion of any partition
Deletions == {p \in 1..Len(moveRun) : moveRun[p].cmd = "gpart delete"}

\* C21: MovePartition deletes only the source, at most once, and only after
\* CopyPartition has returned success (after its dd); when the copy fails
\* nothing is deleted and the error is the copy's; when the deletion fails
\* after a successful copy the error says that the copy succeeded but the
\* deletion of the source failed.
C21_DeleteAfterCopy ==
    (Moved /\ moveCall.by = "MovePartition") =>
        /\ Deletions = SourceDeletions
        /\ \A p \in Deletions :
               /\ p = Len(moveRun)
               /\ p > 1
               /\ moveRun[p - 1].cmd = "dd"
               /\ moveCall.root
               /\ MoveCopyErr = ""
        /\ (moveCall.root /\ MoveCopyErr # "") =>
               /\ Deletions = {}
               /\ moveErr = "failed to copy partition"
        /\ (moveCall.root /\ MoveCopyErr = "") =>
               /\ Cardinality(Deletions) = 1
               /\ moveErr = IF moveCall.deleteOK
                            THEN ""
                            ELSE "copy succeeded but failed to delete source partition"

\* a copy went through and the deletion of the source failed
C21_Witness ==
    /\ moveCall.by = "MovePartition"
    /\ MoveCopyErr = ""
    /\ ~moveCall.deleteOK
    /\ moveErr = "copy succeeded but failed to delete source partition"
    /\ Len(moveRun) = 4
    /\ moveRun[3].cmd = "dd"
    /\ moveRun[4] = GpartDelete(moveCall.sourceDisk, moveCall.sourceIndex)

\* C22: a move performed from the Move Partition dialog has deleted the source
\* partition once its copy has succeeded, and has deleted nothing when the
\* copy failed.
C22_DialogMoveDeletesSource ==
    (Moved /\ moveCall.by = "CopyDialog" /\ moveCall.operation = "move") =>
        /\ MoveCopyErr = "" => SourceDeletions # {}
        /\ MoveCopyErr # "" => Deletions = {}

----------------------------------------------------------------------------
\* GPT attributes (package partition, attributes.go)

AttrBootme == "bootme"

AttrBootonce == "bootonce"

AttrBootfailed == "bootfailed"

AttrNoBlockIO == "noblockio"

\* the Name of each GPTAttribute of the list, in order
GetAvailableAttributes == <<AttrBootme, AttrBootonce, AttrBootfailed, AttrNoBlockIO>>

\* (mutant) every name is taken as valid
Valid_Always(attribute) == TRUE

\* the validation loop: valid iff some attr.Name == attribute
Valid(attribute) ==
    \E i \in 1..Len(GetAvailableAttributes) : GetAvailableAttributes[i] = attribute

\* exec.Command("gpart", verb, "-a", attribute, partName)
GpartAttr(verb, attribute, partName) ==
    [cmd |-> "gpart " \o verb, attribute |-> attribute, part |-> partName]

\* the body SetPartitionAttribute and UnsetPartitionAttribute share; verb is
\* "set" or "unset"
AttributeResult(verb, partName, attribute, cmdOK) ==
    IF ~Valid(attribute)
    THEN [err |-> "invalid attribute", run |-> <<>>]
    ELSE [err |-> IF cmdOK THEN "" ELSE "failed to " \o verb \o " attribute",
          run |-> <<GpartAttr(verb, attribute, partName)>>]

NoAttrCall == [fn |-> "none", partName |-> "", attribute |-> "", cmdOK |-> FALSE]

InitAttr ==
    /\ attrCall = NoAttrCall
    /\ attrRun = <<>>
    /\ attrErr = "not called"

AttributeCall(fn, verb, partName, attribute, cmdOK) ==
    /\ attrErr = "not called"
    /\ attrCall' = [fn |-> fn, partName |-> partName, attribute |-> attribute,
                    cmdOK |-> cmdOK]
    /\ attrRun' = AttributeResult(verb, partName, attribute, cmdOK).run
    /\ attrErr' = AttributeResult(verb, partName, attribute, cmdOK).err
    /\ UNCHANGED notAttr

SetPartitionAttribute(partName, attribute, cmdOK) ==
    AttributeCall("SetPartitionAttribute", "set", partName, attribute, cmdOK)

UnsetPartitionAttribute(partName, attribute, cmdOK) ==
    AttributeCall("UnsetPartitionAttribute", "unset", partName, attribute, cmdOK)

\* the caller has taken the error
AttributeReturned ==
    /\ attrErr # "not called"
    /\ attrCall' = NoAttrCall
    /\ attrRun' = <<>>
    /\ attrErr' = "not called"
    /\ UNCHANGED notAttr

\* the names a caller may pass: the four of the list and names that are not
\* in it (another case, a trailing blank, a prefix, an extension, the empty
\* string, a gpart attribute of another scheme)
AttributeInputs ==
    {"bootme", "bootonce", "bootfailed", "noblockio",
     "", "BOOTME", "bootme ", "boot", "bootonce2", "active", "lenovofix"}

NextAttr ==
    \/ \E partName \in PartNames, attribute \in AttributeInputs, cmdOK \in BOOLEAN :
           SetPartitionAttribute(partName, attribute, cmdOK)
    \/ \E partName \in PartNames, attribute \in AttributeInputs, cmdOK \in BOOLEAN :
           UnsetPartitionAttribute(partName, attribute, cmdOK)
    \/ AttributeReturned

----------------------------------------------------------------------------
\* Properties of the attribute setters (checked under SpecAttr)

\* C23: SetPartitionAttribute and UnsetPartitionAttribute called with a name
\* outside {bootme, bootonce, bootfailed, noblockio} return an error and
\* invoke no external command; called with a name of the set they invoke the
\* gpart set (unset) command for that attribute and partition exactly once.
C23_AttributeValidated ==
    attrErr # "not called" =>
        IF attrCall.attribute \in {"bootme", "bootonce", "bootfailed", "noblockio"}
        THEN /\ Len(attrRun) = 1
             /\ attrRun[1].cmd = (IF attrCall.fn = "SetPartitionAttribute"
                                  THEN "gpart set" ELSE "gpart unset")
             /\ attrRun[1].attribute = attrCall.attribute
             /\ attrRun[1].part = attrCall.partName
             /\ attrErr = "" <=> attrCall.cmdOK
        ELSE /\ attrRun = <<>>
             /\ attrErr = "invalid attribute"

\* UnsetPartitionAttribute has refused a name that differs from a valid one
\* by its case only
C23_Witness ==
    /\ attrCall.fn = "UnsetPartitionAttribute"
    /\ attrCall.attribute = "BOOTME"
    /\ attrErr = "invalid attribute"
    /\ attrRun = <<>>

----------------------------------------------------------------------------
\* getFileSystem (package partition, partition.go): the file system kind of a
\* partition from what "fstyp" and, failing that, "file -s" print.  Strings
\* are sequences of characters.

\* strings.HasPrefix
HasPrefix(s, prefix) ==
    Len(s) >= Len(prefix) /\ SubSeq(s, 1, Len(prefix)) = prefix

WhiteSpace == {" ", "\n", "\t"}

\* (mutant) the fstyp output is taken as it is
TrimSpace_None(s) == s

RECURSIVE TrimSpace(_)
\* strings.TrimSpace
TrimSpace(s) ==
    IF s = <<>> THEN s
    ELSE IF Head(s) \in WhiteSpace THEN TrimSpace(Tail(s))
    ELSE IF s[Len(s)] \in WhiteSpace THEN TrimSpace(SubSeq(s, 1, Len(s) - 1))
    ELSE s

UpperCase == <<"A", "B", "C", "D", "E", "F", "G", "H", "I", "J", "K", "L", "M", "N",
              "O", "P", "Q", "R", "S", "T", "U", "V", "W", "X", "Y", "Z">>

LowerCase == <<"a", "b", "c", "d", "e", "f", "g", "h", "i", "j", "k", "l", "m", "n",
              "o", "p", "q", "r", "s", "t", "u", "v", "w", "x", "y", "z">>

\* strings.ToLower on the ASCII letters
ToLower(s) ==
    [i \in 1..Len(s) |->
        IF \E k \in 1..Len(UpperCase) : UpperCase[k] = s[i]
        THEN LowerCase[CHOOSE k \in 1..Len(UpperCase) : UpperCase[k] = s[i]]
        ELSE s[i]]

\* the display names
KindUFS == <<"U", "F", "S">>

KindZFS == <<"Z", "F", "S">>

KindFAT32 == <<"F", "A", "T", "3", "2">>

KindSwap == <<"s", "w", "a", "p">>

KindExt2 == <<"e", "x", "t", "2">>

KindExt3 == <<"e", "x", "t", "3">>

KindExt4 == <<"e", "x", "t", "4">>

KindNTFS == <<"N", "T", "F", "S">>

KindUnknown == <<"u", "n", "k", "n", "o", "w", "n">>

\* the switch on the trimmed fstyp output; <<>> when the default case falls
\* through with an empty name
FstypKind(fsType) ==
    IF HasPrefix(fsType, <<"u", "f", "s">>) THEN KindUFS
    ELSE IF HasPrefix(fsType, <<"z", "f", "s">>) THEN KindZFS
    ELSE IF Contains(fsType, <<"m", "s", "d", "o", "s">>) \/ Contains(fsType, <<"f", "a", "t">>)
    THEN KindFAT32
    ELSE IF HasPrefix(fsType, <<"e", "x", "t", "2">>) THEN KindExt2
    ELSE IF HasPrefix(fsType, <<"e", "x", "t", "3">>) THEN KindExt3
    ELSE IF HasPrefix(fsType, <<"e", "x", "t", "4">>) THEN KindExt4
    ELSE IF Contains(fsType, <<"n", "t", "f", "s">>) THEN KindNTFS
    ELSE fsType

\* the switch on the lower-cased output of "file -s"
FileKind(outStr) ==
    IF Contains(outStr, <<"u", "n", "i", "x", " ", "f", "a", "s", "t", " ", "f", "i", "l", "e">>)
       \/ Contains(outStr, <<"u", "f", "s">>)
    THEN KindUFS
    ELSE IF Contains(outStr, <<"z", "f", "s">>) THEN KindZFS
    ELSE IF Contains(outStr, <<"f", "a", "t">>) \/ Contains(outStr, <<"m", "s", "d", "o", "s">>)
    THEN KindFAT32
    ELSE IF Contains(outStr, <<"e", "x", "t", "4">>) THEN KindExt4
    ELSE IF Contains(outStr, <<"e", "x", "t", "3">>) THEN KindExt3
    ELSE IF Contains(outStr, <<"e", "x", "t", "2">>) THEN KindExt2
    ELSE IF Contains(outStr, <<"s", "w", "a", "p">>) THEN KindSwap
    ELSE IF Contains(outStr, <<"n", "t", "f", "s">>) THEN KindNTFS
    ELSE KindUnknown

\* getFileSystem from its first line to its return; fstyp and file are what
\* the two commands come back with (err: the command failed)
getFileSystem(fstyp, file) ==
    LET fsType == TrimSpace(fstyp.output)
        primary == IF ~fstyp.err /\ Len(fstyp.output) > 0
                   THEN FstypKind(fsType)
                   ELSE <<>>
    IN IF primary # <<>>
       THEN [kind |-> primary, err |-> ""]
       ELSE IF file.err
       THEN [kind |-> KindUnknown, err |-> ""]
       ELSE [kind |-> FileKind(ToLower(file.output)), err |-> ""]

\* what fstyp prints: the names of the file systems it detects, with the
\* newline it ends them with, a blank line and nothing at all
FstypOutputs ==
    {<<"u", "f", "s", "\n">>,
     <<"z", "f", "s", "\n">>,
     <<"m", "s", "d", "o", "s", "f", "s", "\n">>,
     <<"e", "x", "f", "a", "t", "\n">>,
     <<"e", "x", "t", "2", "f", "s", "\n">>,
     <<"n", "t", "f", "s", "\n">>,
     <<"c", "d", "9", "6", "6", "0", "\n">>,
     <<"g", "e", "l", "i", "\n">>,
     <<"h", "a", "m", "m", "e", "r", "2", "\n">>,
     <<"\n">>,
     <<>>}

\* what "file -s" prints after the device name
FileOutputs ==
    {<<"U", "n", "i", "x", " ", "F", "a", "s", "t", " ", "F", "i", "l", "e", " ", "s", "y", "s", "t", "e", "m", "\n">>,
     <<"Z", "F", "S", " ", "s", "t", "o", "r", "a", "g", "e", " ", "p", "o", "o", "l", "\n">>,
     <<"F", "A", "T", " ", "(", "3", "2", " ", "b", "i", "t", ")", "\n">>,
     <<"e", "x", "t", "4", " ", "f", "i", "l", "e", "s", "y", "s", "t", "e", "m", "\n">>,
     <<"e", "x", "t", "3", " ", "f", "i", "l", "e", "s", "y", "s", "t", "e", "m", "\n">>,
     <<"e", "x", "t", "2", " ", "f", "i", "l", "e", "s", "y", "s", "t", "e", "m", "\n">>,
     <<"s", "w", "a", "p", " ", "f", "i", "l", "e", "\n">>,
     <<"N", "T", "F", "S", "\n">>,
     <<"b", "o", "o", "t", " ", "s", "e", "c", "t", "o", "r", "\n">>,
     <<"d", "a", "t", "a", "\n">>,
     <<>>}

\* a failed command comes back with its complaint instead
Complaint == <<"n", "o", "t", " ", "r", "e", "c", "o", "g", "n", "i", "z", "e", "d", "\n">>

FstypResults ==
    {[err |-> FALSE, output |-> o] : o \in FstypOutputs}
    \cup {[err |-> TRUE, output |-> Complaint]}

FileResults ==
    {[err |-> FALSE, output |-> o] : o \in FileOutputs}
    \cup {[err |-> TRUE, output |-> Complaint]}

NoFSCall == [fstyp |-> [err |-> TRUE, output |-> <<>>],
             file |-> [err |-> TRUE, output |-> <<>>]]

InitFS ==
    /\ fsCall = NoFSCall
    /\ fsKind = <<>>
    /\ fsErr = "not called"

GetFileSystemCall(fstyp, file) ==
    /\ fsErr = "not called"
    /\ fsCall' = [fstyp |-> fstyp, file |-> file]
    /\ fsKind' = getFileSystem(fstyp, file).kind
    /\ fsErr' = getFileSystem(fstyp, file).err
    /\ UNCHANGED notFS

\* getPartitions has stored the kind in the Partition
FileSystemStored ==
    /\ fsErr # "not called"
    /\ fsCall' = NoFSCall
    /\ fsKind' = <<>>
    /\ fsErr' = "not called"
    /\ UNCHANGED notFS

NextFS ==
    \/ \E fstyp \in FstypResults, file \in FileResults : GetFileSystemCall(fstyp, file)
    \/ FileSystemStored

----------------------------------------------------------------------------
\* Properties of getFileSystem (checked under SpecFS)

EnumeratedKinds ==
    {KindUFS, KindZFS, KindFAT32, KindSwap, KindExt2, KindExt3, KindExt4,
     KindNTFS, KindUnknown}

\* fstyp failed or named nothing
FstypSilent ==
    fsCall.fstyp.err \/ TrimSpace(fsCall.fstyp.output) = <<>>

\* "file -s" failed or showed none of the signatures of the enumerated kinds
FileSilent ==
    \/ fsCall.file.err
    \/ \A sig \in {<<"u", "n", "i", "x", " ", "f", "a", "s", "t", " ", "f", "i", "l", "e">>, <<"u", "f", "s">>, <<"z", "f", "s">>,
                  <<"f", "a", "t">>, <<"m", "s", "d", "o", "s">>, <<"e", "x", "t", "4">>, <<"e", "x", "t", "3">>,
                  <<"e", "x", "t", "2">>, <<"s", "w", "a", "p">>, <<"n", "t", "f", "s">>} :
           ~Contains(ToLower(fsCall.file.output), sig)

----------------------------------------------------------------------------
\* GetDisks (package partition, partition.go): the disks of "geom disk list",
\* each with the partitions parsed from its "gpart show -p".  The output of
\* a command is a sequence of characters.

MaxScanRows == 3     \* most rows (partitions and free ranges) gpart shows for a disk
FirstSector == 3     \* the first usable sector of a scanned disk
RowSectors  == 4     \* a free range is this long; a partition once or twice that

RECURSIVE Split(_, _)
\* strings.Split(s, sep) for a separator of one character
Split(s, sep) ==
    IF \E i \in 1..Len(s) : s[i] = sep
    THEN LET i == CHOOSE k \in 1..Len(s) :
                      s[k] = sep /\ \A j \in 1..(k - 1) : s[j] # sep
         IN <<SubSeq(s, 1, i - 1)>> \o Split(SubSeq(s, i + 1, Len(s)), sep)
    ELSE <<s>>

RECURSIVE Fields(_)
\* strings.Fields: the maximal runs of characters that are not white space
Fields(s) ==
    IF s = <<>> THEN <<>>
    ELSE IF Head(s) \in WhiteSpace THEN Fields(Tail(s))
    ELSE IF \E i \in 1..Len(s) : s[i] \in WhiteSpace
    THEN LET i == CHOOSE k \in 1..Len(s) :
                      s[k] \in WhiteSpace /\ \A j \in 1..(k - 1) : s[j] \notin WhiteSpace
         IN <<SubSeq(s, 1, i - 1)>> \o Fields(SubSeq(s, i + 1, Len(s)))
    ELSE <<s>>

Digits == <<"0", "1", "2", "3", "4", "5", "6", "7", "8", "9">>

RECURSIVE ParseUint(_)
\* strconv.ParseUint(s, 10, 64): the value, or -1 for an error (the numbers
\* of the model stay far below 2^64)
ParseUint(s) ==
    IF s = <<>> THEN -1
    ELSE IF \A k \in 1..Len(Digits) : Digits[k] # s[Len(s)] THEN -1
    ELSE LET d == (CHOOSE k \in 1..Len(Digits) : Digits[k] = s[Len(s)]) - 1
         IN IF Len(s) = 1 THEN d
            ELSE IF ParseUint(SubSeq(s, 1, Len(s) - 1)) < 0 THEN -1
            ELSE 10 * ParseUint(SubSeq(s, 1, Len(s) - 1)) + d

\* (mutant) the partition is put in front of those parsed so far
AppendPartition_Front(partitions, part) == <<part>> \o partitions

\* partitions = append(partitions, part)
AppendPartition(partitions, part) == Append(partitions, part)

\* the body of the loop of parseGpartShow for one line.  FileSystem and
\* MountPoint are filled by getFileSystem and getMountPoint and play no part
\* in the order of the list.
ParseLine(partitions, rawLine) ==
    LET line == TrimSpace(rawLine)
        fields == Fields(line)
    IN IF line = <<>> THEN partitions
       ELSE IF HasPrefix(line, <<"=", ">">>) THEN partitions
       ELSE IF Len(fields) < 4 THEN partitions
       ELSE IF ParseUint(At(fields, 0)) < 0 \/ ParseUint(At(fields, 1)) < 0
       THEN partitions
       ELSE IF At(fields, 3) = <<>> \/ HasPrefix(At(fields, 3), <<"-">>)
       THEN partitions
       ELSE AppendPartition(partitions,
                [Start |-> ParseUint(At(fields, 0)),
                 Size  |-> ParseUint(At(fields, 1)),
                 End   |-> ParseUint(At(fields, 0)) + ParseUint(At(fields, 1)),
                 Type  |-> At(fields, 2),
                 Name  |-> At(fields, 3)])

RECURSIVE ParseLines(_, _)
ParseLines(partitions, lines) ==
    IF lines = <<>> THEN partitions
    ELSE ParseLines(ParseLine(partitions, Head(lines)), Tail(lines))

\* parseGpartShow: it has no error return other than nil
parseGpartShow(output) == ParseLines(<<>>, Split(output, "\n"))

\* (mutant) a failed listing makes GetDisks fail
ListingAborts_Always(listingErr) == listingErr

\* if err != nil { continue }: a failed listing never ends the scan
ListingAborts(listingErr) == FALSE

\* GetDisks from its first line to its return.  env.geomErr: "geom disk list"
\* failed; env.names: the Geom names it listed; env.gpart[i]: what "gpart
\* show -p" came back with for the i-th of them.
GetDisksResult(env) ==
    IF env.geomErr
    THEN [err |-> "failed to execute geom disk list", disks |-> <<>>]
    ELSE IF \E i \in 1..Len(env.names) : ListingAborts(env.gpart[i].err)
    THEN [err |-> "failed to get partitions", disks |-> <<>>]
    ELSE [err |-> "",
          disks |-> [i \in 1..Len(env.names) |->
                        [Name |-> env.names[i],
                         Partitions |-> IF env.gpart[i].err
                                        THEN <<>>
                                        ELSE parseGpartShow(env.gpart[i].output)]]]

\* ---- what gpart prints

\* a row of a disk's table as gpart walks it: a partition or a free range
RowKinds == {"part", "free"}

RECURSIVE RowsFrom(_, _)
\* the tables of at most n rows that start at sector first: gpart shows the
\* rows by ascending start, each beginning where the one before ended, and
\* never two free ranges in a row
RowsFrom(first, n) ==
    IF n = 0 THEN {<<>>}
    ELSE {<<>>} \cup
         UNION {{<<[kind |-> "part", start |-> first, size |-> k * RowSectors]>> \o rest :
                     rest \in RowsFrom(first + k * RowSectors, n - 1)} : k \in 1..2} \cup
         {<<[kind |-> "free", start |-> first, size |-> RowSectors]>> \o rest :
              rest \in {r \in RowsFrom(first + RowSectors, n - 1) :
                            r = <<>> \/ r[1].kind = "part"}}

Tables == RowsFrom(FirstSector, MaxScanRows)

ScannedNames == <<<<"a", "d", "a", "0">>, <<"a", "d", "a", "1">>>>

\* how many partitions the first n rows of a table hold
PartsUpTo(rows, n) == Cardinality({i \in 1..n : rows[i].kind = "part"})

\* one row as "gpart show -p" prints it: start, size, then the provider's
\* name and the partition type, or "- free -", then the size in words
RowLine(diskName, rows, n) ==
    <<" ", " ">> \o Decimal(rows[n].start) \o <<" ", " ">> \o Decimal(rows[n].size)
    \o <<" ", " ">>
    \o (IF rows[n].kind = "part"
        THEN diskName \o <<"p">> \o Decimal(PartsUpTo(rows, n)) \o <<" ", " ">>
             \o <<"f", "r", "e", "e", "b", "s", "d", "-", "u", "f", "s">>
        ELSE <<"-", " ", "f", "r", "e", "e", " ", "-">>)
    \o <<" ", " ", "(", "2", "K", ")">> \o <<"\n">>

RECURSIVE RowLines(_, _, _)
RowLines(diskName, rows, n) ==
    IF n = 0 THEN <<>> ELSE RowLines(diskName, rows, n - 1) \o RowLine(diskName, rows, n)

\* the whole output: the line of the geom, then its rows
GpartShow(diskName, rows) ==
    <<"=", ">">> \o <<" ">> \o Decimal(FirstSector) \o <<" ", " ">>
    \o Decimal(2 * RowSectors * MaxScanRows) \o <<" ", " ">> \o diskName
    \o <<" ", " ", "G", "P", "T", " ", " ", "(", "9", "K", ")">> \o <<"\n">>
    \o RowLines(diskName, rows, Len(rows))

\* what "gpart show -p <disk>" can come back with: it fails (no partition
\* table, a failure in the middle of the scan), or it prints a table
GpartResults(diskName) ==
    {[err |-> TRUE, rows |-> <<>>, output |-> <<"g", "p", "a", "r", "t", ":", " ", "N", "o", " ", "s", "u", "c", "h", " ", "g", "e", "o", "m", "\n">>]}
    \cup {[err |-> FALSE, rows |-> rows, output |-> GpartShow(diskName, rows)] :
              rows \in Tables}

NoScan == [geomErr |-> TRUE, names |-> <<>>, gpart |-> <<>>]

InitScan ==
    /\ scanEnv = NoScan
    /\ scanDisks = <<>>
    /\ scanErr = "not called"

ScanDisks(env) ==
    /\ scanErr = "not called"
    /\ scanEnv' = env
    /\ scanDisks' = GetDisksResult(env).disks
    /\ scanErr' = GetDisksResult(env).err
    /\ UNCHANGED notScan

\* refreshDisks has taken the result
ScanReturned ==
    /\ scanErr # "not called"
    /\ scanEnv' = NoScan
    /\ scanDisks' = <<>>
    /\ scanErr' = "not called"
    /\ UNCHANGED notScan

NextScan ==
    \/ ScanDisks([geomErr |-> TRUE, names |-> <<>>, gpart |-> <<>>])
    \/ \E g1 \in GpartResults(ScannedNames[1]), g2 \in GpartResults(ScannedNames[2]) :
           ScanDisks([geomErr |-> FALSE, names |-> ScannedNames, gpart |-> <<g1, g2>>])
    \/ ScanReturned

----------------------------------------------------------------------------
\* Properties of the disk scan (checked under SpecScan)

Scanned == scanErr # "not called"

\* the [Start, Size] of the rows of kinds gpart showed for the i-th disk
ShownRows(i, kinds) ==
    {<<scanEnv.gpart[i].rows[n].start, scanEnv.gpart[i].rows[n].size>> :
         n \in {m \in 1..Len(scanEnv.gpart[i].rows) : scanEnv.gpart[i].rows[m].kind \in kinds}}

ReturnedRows(i) ==
    {<<scanDisks[i].Partitions[n].Start, scanDisks[i].Partitions[n].Size>> :
         n \in 1..Len(scanDisks[i].Partitions)}

\* C25: GetDisks fails only when the disk enumeration fails.  When the listing
\* of the partitions fails for a disk, that disk is still returned, with an
\* empty partition list, and every other disk has its own partitions: all
\* those gpart showed for it and nothing gpart did not show for it.
C25_ListingFailureKeepsDisk ==
    Scanned =>
        /\ scanErr # "" <=> scanEnv.geomErr
        /\ ~scanEnv.geomErr =>
               /\ Len(scanDisks) = Len(scanEnv.names)
               /\ \A i \in 1..Len(scanDisks) :
                      /\ scanDisks[i].Name = scanEnv.names[i]
                      /\ IF scanEnv.gpart[i].err
                         THEN scanDisks[i].Partitions = <<>>
                         ELSE /\ ShownRows(i, {"part"}) \subseteq ReturnedRows(i)
                              /\ ReturnedRows(i) \subseteq ShownRows(i, RowKinds)

\* the listing of the first disk failed and the second disk has come back
\* with two partitions
C25_Witness ==
    /\ scanErr = ""
    /\ Len(scanDisks) = 2
    /\ scanEnv.gpart[1].err
    /\ scanDisks[1].Partitions = <<>>
    /\ ~scanEnv.gpart[2].err
    /\ Cardinality(ShownRows(2, {"part"})) = 2
    /\ Len(scanDisks[2].Partitions) >= 2

\* C26: for every Disk GetDisks returned, Partitions is sorted by Start and
\* no two partitions' ranges [Start, End) overlap.
C26_SortedDisjoint ==
    Scanned =>
        \A i \in 1..Len(scanDisks) :
            \A m, n \in 1..Len(scanDisks[i].Partitions) :
                m < n => /\ scanDisks[i].Partitions[m].Start < scanDisks[i].Partitions[n].Start
                         /\ scanDisks[i].Partitions[m].End <= scanDisks[i].Partitions[n].Start

\* a disk has come back with three entries, the second of them after a
\* partition of twice the shortest length
C26_Witness ==
    /\ scanErr = ""
    /\ \E i \in 1..Len(scanDisks) :
           /\ Len(scanDisks[i].Partitions) = 3
           /\ scanDisks[i].Partitions[1].Size = 2 * RowSectors
           /\ scanDisks[i].Partitions[2].Start
                  = scanDisks[i].Partitions[1].Start + 2 * RowSectors

----------------------------------------------------------------------------
\* BatchDialog.performExecution (internal/ui/partitionview.go): ExecuteAll
\* with the dialog's progress callback, which sets the status label and the
\* progress bar and then refreshes the operation list; the list's length
\* function is bd.queue.Count().  A run with a nil callback (progressCallback
\* FALSE) makes no such call.

InitDialog ==
    /\ cbPc = "none"
    /\ listLength = -1

\* bq.mu.RLock(): a reader gets the lock only while no writer holds it, and
\* ExecuteAll holds the write lock from its first line to its return.  The
\* lock is not reentrant: the goroutine that holds the write lock waits like
\* any other.
RLock == mu # "locked"

\* the callback up to its call of bd.operationList.Refresh()
DialogProgressCallback ==
    /\ pc = "progress"
    /\ cbPc = "none"
    /\ cbPc' = "refresh"
    /\ UNCHANGED <<batchVars, histVars, listLength, mwVars, resizeVars, alignVars,
                   copyVars, moveVars, attrVars, fsVars, scanVars, streamVars, onlineVars, viewVars, reorderVars, queuedVars>>

\* bq.Count() as the list's length function calls it: from the refresh inside
\* the callback (caller "callback", after which the callback returns to
\* ExecuteAll), or from the user interface at any other time (caller "ui")
Count(caller) ==
    /\ RLock
    /\ listLength' = Len(operations)
    /\ IF caller = "callback"
       THEN /\ cbPc = "refresh"
            /\ cbPc' = "none"
            /\ log' = Append(log, ProgressEvent(RangeIndex(idx, total), total, Current))
            /\ pc' = "exec"
       ELSE /\ cbPc = "none"
            /\ UNCHANGED <<cbPc, log, pc>>
    /\ UNCHANGED <<operations, nextID, mu, stopOnError, progressCallback, total, idx,
                   ret, before, succeeded, histVars, mwVars, resizeVars, alignVars,
                   copyVars, moveVars, attrVars, fsVars, scanVars, streamVars, onlineVars, viewVars, reorderVars, queuedVars>>

\* the steps of the goroutine that runs ExecuteAll
RunStep ==
    \/ ExecuteAllSkip
    \/ ExecuteAllRunning
    \/ DialogProgressCallback
    \/ Count("callback")
    \/ ExecuteAllExec
    \/ ExecuteAllReturn

NextDialog ==
    \/ \E type \in AddedTypes : AddOperation(type)
    \/ \E stop \in BOOLEAN, cb \in BOOLEAN : ExecuteAllCall(stop, cb)
    \/ ExecuteAllSkip
    \/ ExecuteAllRunning
    \/ DialogProgressCallback
    \/ \E caller \in {"callback", "ui"} : Count(caller)
    \/ ExecuteAllExec
    \/ ExecuteAllReturn

----------------------------------------------------------------------------
\* Properties of the run with the dialog's callback (checked under
\* SpecDialogFair: the goroutine of ExecuteAll takes its next step whenever
\* it can)

\* C28: ExecuteAll on a finite queue eventually returns (and gives up the
\* lock), also when its progress callback reads the queue through Count: the
\* read from within the callback does not wait for ever.
C28_ExecuteAllReturns == (mu = "locked") ~> (mu = "unlocked")

----------------------------------------------------------------------------
\* CopyPartition from cmd.Start on (package partition, copy.go): dd writes
\* its diagnostic lines to the stderr pipe; CopyPartition reads the pipe line
\* by line when it has a progress callback, and only then; cmd.Wait returns
\* once dd has exited.

\* The lines an OS pipe holds before a write to it blocks (the pipe buffer,
\* counted in lines).
PipeLines == 2

\* A float64 that is the quotient of two whole numbers, in lowest terms
RECURSIVE GCD(_, _)
GCD(a, b) == IF b = 0 THEN a ELSE GCD(b, a % b)

Float(num, den) ==
    LET g == GCD(num, den) IN [num |-> num \div g, den |-> den \div g]

\* strconv.ParseUint(fields[0], 10, 64) of the line, -1 standing for err != nil
\* (and for a line without fields)
ParsedBytes(line) ==
    IF Len(Fields(line)) > 0 THEN ParseUint(Fields(line)[1]) ELSE -1

\* parseProgress(line, totalSize)
parseProgress(line, totalSize) ==
    IF Len(Fields(line)) > 0 /\ ParseUint(Fields(line)[1]) >= 0 /\ totalSize > 0
    THEN Float(ParseUint(Fields(line)[1]) * 100, totalSize)
    ELSE Float(0, 1)

Bytes == <<"b", "y", "t", "e", "s">>

\* if strings.Contains(line, "bytes")
ProgressLine(line) == Contains(line, Bytes)

\* What dd can write to its error stream: the running byte count
\* ("256 bytes"), the record counts ("1+0 in"), an empty line, and a message
\* that has the word "bytes" in it but does not start with a count
\* ("dd: 0 bytes").
DdLines ==
    {Decimal(n) \o <<" ">> \o Bytes : n \in {SectorSize \div 2, SectorSize}}
    \cup {<<"1", "+", "0", " ", "i", "n">>}
    \cup {<<>>}
    \cup {<<"d", "d", ":", " ", "0", " ">> \o Bytes}

NoScanned == [line |-> <<>>, fired |-> FALSE, progress |-> Float(0, 1)]

InitStream ==
    /\ copyPc = "idle"
    /\ copyCallback = FALSE
    /\ srcSize = 0
    /\ ddState = "none"
    /\ ddLeft = 0
    /\ ddOK = FALSE
    /\ stderr = <<>>
    /\ scanned = NoScanned
    /\ streamErr = "not called"

\* the calls of CopyPartition: as any user, on two partitions whose sizes
\* diskinfo reports or fails to report
StreamCalls ==
    {c \in CopyCalls : /\ c.sourcePart = "ada0p1"
                       /\ c.destPart = "ada0p2"
                       /\ c.destAnswer.err = c.sourceAnswer.err
                       /\ c.ddStarts}

\* CopyPartition(sourcePart, destPart, progressCallback) up to the monitor
\* loop: the checks and size queries of CopyResult, then cmd.StderrPipe and
\* cmd.Start.  dd has `lines` diagnostic lines to write before it exits.
CopyPartitionStart(c, callback, lines) ==
    /\ copyPc = "idle"
    /\ scanned' = NoScanned
    /\ stderr' = <<>>
    /\ copyCallback' = callback
    /\ IF \E i \in 1..Len(CopyResult(c).run) : CopyResult(c).run[i].cmd = "dd"
       THEN /\ copyPc' = IF callback THEN "scan" ELSE "wait"
            /\ srcSize' = getPartitionSize(c.sourceAnswer).size
            /\ ddState' = "running"
            /\ ddLeft' = lines
            /\ ddOK' = c.ddOK
            /\ streamErr' = "not returned"
       ELSE /\ copyPc' = "returned"
            /\ srcSize' = 0
            /\ ddState' = "none"
            /\ ddLeft' = 0
            /\ ddOK' = FALSE
            /\ streamErr' = CopyResult(c).err
    /\ UNCHANGED notStream

\* dd writes one line to its error stream; the write goes through only while
\* the pipe has room, otherwise dd waits in it
DdWrite(line) ==
    /\ ddState = "running"
    /\ ddLeft > 0
    /\ Len(stderr) < PipeLines
    /\ stderr' = Append(stderr, line)
    /\ ddLeft' = ddLeft - 1
    /\ UNCHANGED <<copyPc, copyCallback, srcSize, ddState, ddOK, scanned,
                   streamErr, notStream>>

\* dd has written all it had to write and exits
DdExit ==
    /\ ddState = "running"
    /\ ddLeft = 0
    /\ ddState' = "exited"
    /\ UNCHANGED <<copyPc, copyCallback, srcSize, ddLeft, ddOK, stderr,
                   scanned, streamErr, notStream>>

\* one round of `for scanner.Scan()`: line := scanner.Text(), and for a line
\* that contains "bytes" progressCallback(parseProgress(line, srcSize))
ScanLine ==
    /\ copyPc = "scan"
    /\ stderr # <<>>
    /\ scanned' = [line |-> Head(stderr),
                   fired |-> ProgressLine(Head(stderr)),
                   progress |-> IF ProgressLine(Head(stderr))
                                THEN parseProgress(Head(stderr), srcSize)
                                ELSE Float(0, 1)]
    /\ stderr' = Tail(stderr)
    /\ UNCHANGED <<copyPc, copyCallback, srcSize, ddState, ddLeft, ddOK,
                   streamErr, notStream>>

\* scanner.Scan() returns false: the pipe is empty and dd has closed its end
ScanEnd ==
    /\ copyPc = "scan"
    /\ stderr = <<>>
    /\ ddState = "exited"
    /\ copyPc' = "wait"
    /\ UNCHANGED <<copyCallback, srcSize, ddState, ddLeft, ddOK, stderr,
                   scanned, streamErr, notStream>>

\* cmd.Wait() returns when dd has exited; CopyPartition returns its verdict
Wait ==
    /\ copyPc = "wait"
    /\ ddState = "exited"
    /\ copyPc' = "returned"
    /\ streamErr' = IF ddOK THEN "" ELSE "partition copy failed"
    /\ UNCHANGED <<copyCallback, srcSize, ddState, ddLeft, ddOK, stderr,
                   scanned, notStream>>

\* the caller has the result; the next call can be made
CopyPartitionReturned ==
    /\ copyPc = "returned"
    /\ copyPc' = "idle"
    /\ copyCallback' = FALSE
    /\ srcSize' = 0
    /\ ddState' = "none"
    /\ ddLeft' = 0
    /\ ddOK' = FALSE
    /\ stderr' = <<>>
    /\ scanned' = NoScanned
    /\ streamErr' = "not called"
    /\ UNCHANGED notStream

\* the steps dd and the goroutine of CopyPartition take by themselves
StreamStep ==
    \/ \E line \in DdLines : DdWrite(line)
    \/ DdExit
    \/ ScanLine
    \/ ScanEnd
    \/ Wait

NextStream ==
    \/ /\ copyPc = "idle"
       /\ \E c \in StreamCalls, callback \in BOOLEAN, lines \in 0..MaxDdLines :
              CopyPartitionStart(c, callback, lines)
    \/ \E line \in DdLines : DdWrite(line)
    \/ DdExit
    \/ ScanLine
    \/ ScanEnd
    \/ Wait
    \/ CopyPartitionReturned

----------------------------------------------------------------------------
\* Properties of the monitor loop (checked under SpecStream; C32 under
\* SpecStreamFair: dd and CopyPartition take their next step whenever they
\* can)

\* C31: with a progress callback, the callback fires only for a line from
\* which a copied-byte count is parsed, with copied bytes / source size * 100;
\* a line from which no byte count can be parsed triggers no callback.
C31_CallbackOnlyForByteCount ==
    copyCallback =>
        /\ scanned.fired =>
               /\ ParsedBytes(scanned.line) >= 0
               /\ scanned.progress = Float(ParsedBytes(scanned.line) * 100, srcSize)
        /\ ParsedBytes(scanned.line) < 0 => ~scanned.fired

\* C32: CopyPartition without a progress callback, once dd is started,
\* eventually returns, however many lines dd writes to its error stream.
C32_ReturnsWithoutCallback ==
    (copyPc = "wait" /\ ~copyCallback) ~> (copyPc = "returned")

----------------------------------------------------------------------------
\* Online resize (package partition, online.go)

FsUfs  == <<"u", "f", "s">>
FsExt2 == <<"e", "x", "t", "2">>
FsExt3 == <<"e", "x", "t", "3">>
FsExt4 == <<"e", "x", "t", "4">>
FsXfs  == <<"x", "f", "s">>
FsUnknown == <<"u", "n", "k", "n", "o", "w", "n">>

\* GetOnlineResizeCapability(fsType)
GetOnlineResizeCapability(fsType) ==
    IF ToLower(fsType) = FsUfs
    THEN [SupportsGrow |-> TRUE, SupportsShrink |-> FALSE, RequiresMounted |-> TRUE,
          Command |-> "growfs"]
    ELSE IF ToLower(fsType) \in {FsExt3, FsExt4, FsExt2}
    THEN [SupportsGrow |-> TRUE, SupportsShrink |-> TRUE, RequiresMounted |-> FALSE,
          Command |-> "resize2fs"]
    ELSE IF ToLower(fsType) = FsXfs
    THEN [SupportsGrow |-> TRUE, SupportsShrink |-> FALSE, RequiresMounted |-> TRUE,
          Command |-> "xfs_growfs"]
    ELSE [SupportsGrow |-> FALSE, SupportsShrink |-> FALSE, RequiresMounted |-> FALSE,
          Command |-> ""]

\* CanResizeOnline(part, grow): the verdict and the reason
CanResizeOnline(part, grow) ==
    LET capability == GetOnlineResizeCapability(part.FileSystem) IN
    IF part.FileSystem = <<>> \/ part.FileSystem = FsUnknown
    THEN [ok |-> FALSE, reason |-> "Unknown filesystem type"]
    ELSE IF grow /\ ~capability.SupportsGrow
    THEN [ok |-> FALSE, reason |-> "does not support online grow"]
    ELSE IF ~grow /\ ~capability.SupportsShrink
    THEN [ok |-> FALSE, reason |-> "does not support online shrink"]
    ELSE IF capability.RequiresMounted /\ part.MountPoint = ""
    THEN [ok |-> FALSE, reason |-> "Filesystem must be mounted for online resize"]
    ELSE [ok |-> TRUE, reason |-> ""]

\* resizeUFSOnline and resizeXFSOnline: growfs -y <mount point>, xfs_growfs
\* <mount point>
resizeMounted(command, part, cmdOK) ==
    IF part.MountPoint = ""
    THEN [err |-> "filesystem must be mounted for online resize", run |-> <<>>]
    ELSE [err |-> IF cmdOK THEN "" ELSE command \o " failed",
          run |-> <<[cmd |-> command, target |-> part.MountPoint]>>]

\* resizeExt234Online: resize2fs <name> <size>K, or resize2fs <name> when the
\* size in K is 0
resizeExt234Online(part, newSizeBytes, cmdOK) ==
    [err |-> IF cmdOK THEN "" ELSE "resize2fs failed",
     run |-> <<[cmd |-> "resize2fs", sizeK |-> newSizeBytes \div 1024]>>]

\* ResizeFilesystemOnline(part, newSizeBytes): the error returned and the
\* commands invoked; cmdOK says how the resize command ends
ResizeFilesystemOnline(part, newSizeBytes, cmdOK) ==
    LET capability == GetOnlineResizeCapability(part.FileSystem)
        isGrow     == newSizeBytes > part.Size * SectorSize
    IN IF part.FileSystem = <<>> \/ part.FileSystem = FsUnknown
       THEN [err |-> "cannot resize unknown filesystem type", run |-> <<>>]
       ELSE IF isGrow /\ ~capability.SupportsGrow
       THEN [err |-> "does not support online grow", run |-> <<>>]
       ELSE IF ~isGrow /\ ~capability.SupportsShrink
       THEN [err |-> "does not support online shrink", run |-> <<>>]
       ELSE IF ToLower(part.FileSystem) = FsUfs
       THEN resizeMounted("growfs", part, cmdOK)
       ELSE IF ToLower(part.FileSystem) \in {FsExt2, FsExt3, FsExt4}
       THEN resizeExt234Online(part, newSizeBytes, cmdOK)
       ELSE IF ToLower(part.FileSystem) = FsXfs
       THEN resizeMounted("xfs_growfs", part, cmdOK)
       ELSE [err |-> "online resize not implemented", run |-> <<>>]

\* (mutant) the verdict of CanResizeOnline is ignored
Refused_Never(canResize) == FALSE

\* if !canResize
Refused(canResize) == ~canResize

\* (mutant) the filesystem is resized whatever became of the partition resize
PartitionResizeFailed_Never(o) == FALSE

\* if err := ResizePartition(...); err != nil: the caller is not root, or
\* gpart resize fails
PartitionResizeFailed(o) == ~o.root \/ ~o.gpartOK

\* PerformOnlineResize(diskName, partIndex, newSizeBytes, part): the error
\* returned and the external commands invoked, in order
PerformOnlineResizeResult(o) ==
    LET isGrow    == o.newSizeBytes > o.part.Size * SectorSize
        canResize == CanResizeOnline(o.part, isGrow)
        gpart     == ResizePartition(o.root, o.newSizeBytes \div (1024 * 1024))
        fs        == ResizeFilesystemOnline(o.part, o.newSizeBytes, o.fsOK)
    IN IF Refused(canResize.ok)
       THEN [err |-> "cannot perform online resize", run |-> <<>>]
       ELSE IF PartitionResizeFailed(o)
       THEN [err |-> "failed to resize partition", run |-> gpart]
       ELSE IF fs.err # ""
       THEN [err |-> "partition resized but filesystem resize failed",
             run |-> gpart \o fs.run]
       ELSE [err |-> "", run |-> gpart \o fs.run]

\* The partitions PerformOnlineResize is called on
OnlineFileSystems ==
    {<<>>, FsUnknown, FsUfs, <<"U", "F", "S">>, FsExt2, FsExt4, FsXfs, <<"z", "f", "s">>}

OnlineParts ==
    [FileSystem : OnlineFileSystems, MountPoint : {"", "/mnt"},
     Size : 1..MaxOnlineSectors]

OnlineCalls ==
    [part : OnlineParts,
     newSizeBytes : {k * SectorSize : k \in 0..(MaxOnlineSectors + 1)},
     root : BOOLEAN, gpartOK : BOOLEAN, fsOK : BOOLEAN]

NoOnlineCall ==
    [part |-> [FileSystem |-> <<>>, MountPoint |-> "", Size |-> 1],
     newSizeBytes |-> 0, root |-> FALSE, gpartOK |-> FALSE, fsOK |-> FALSE]

InitOnline ==
    /\ onlineCall = NoOnlineCall
    /\ onlineRun = <<>>
    /\ onlineErr = "not called"

PerformOnlineResize(o) ==
    /\ onlineErr = "not called"
    /\ onlineCall' = o
    /\ onlineRun' = PerformOnlineResizeResult(o).run
    /\ onlineErr' = PerformOnlineResizeResult(o).err
    /\ UNCHANGED notOnline

\* the caller has the result; the next call can be made
OnlineResizeReturned ==
    /\ onlineErr # "not called"
    /\ onlineCall' = NoOnlineCall
    /\ onlineRun' = <<>>
    /\ onlineErr' = "not called"
    /\ UNCHANGED notOnline

NextOnline ==
    \/ /\ onlineErr = "not called"
       /\ \E o \in OnlineCalls : PerformOnlineResize(o)
    \/ OnlineResizeReturned

----------------------------------------------------------------------------
\* Properties of PerformOnlineResize (checked under SpecOnline)

FsCommands == {"growfs", "resize2fs", "xfs_growfs"}

\* the positions of the filesystem resize commands among the commands invoked
FsResizes == {i \in 1..Len(onlineRun) : onlineRun[i].cmd \in FsCommands}

OnlineGrow == onlineCall.newSizeBytes > onlineCall.part.Size * SectorSize

\* C33: PerformOnlineResize invokes no external command when CanResizeOnline
\* rejects the request; it invokes the filesystem resize only after the
\* partition resize (gpart resize) has succeeded; and when the filesystem
\* resize then fails, the error says that the partition was resized but the
\* filesystem resize failed.
C33_OnlineResizeOrder ==
    onlineErr # "not called" =>
        /\ ~CanResizeOnline(onlineCall.part, OnlineGrow).ok
               => (onlineRun = <<>> /\ onlineErr # "")
        /\ \A i \in FsResizes :
               /\ i > 1
               /\ onlineRun[1].cmd = "gpart resize"
               /\ onlineCall.root /\ onlineCall.gpartOK
        /\ (FsResizes # {} /\ ~onlineCall.fsOK)
               => onlineErr = "partition resized but filesystem resize failed"

\* a mounted UFS partition is grown by root, gpart resize succeeds and growfs
\* fails
C33_Witness ==
    /\ onlineCall.part.FileSystem = FsUfs
    /\ onlineCall.part.MountPoint = "/mnt"
    /\ OnlineGrow
    /\ onlineCall.gpartOK
    /\ ~onlineCall.fsOK
    /\ Len(onlineRun) = 2
    /\ onlineRun[2].cmd = "growfs"
    /\ onlineErr = "partition resized but filesystem resize failed"

----------------------------------------------------------------------------
\* InteractivePartitionView (internal/ui/partitionview.go): the blocks of the
\* view point into v.disk.Partitions, and dragging a handle of a block
\* previews the new size.

\* part := Partition{Start: start, Size: size, End: start + size} of
\* parseGpartShow, for each partition of a scanned disk
ScannedDisk(d) ==
    [Size |-> d.Size,
     Partitions |-> [i \in 1..Len(d.Partitions) |->
                        [Start |-> d.Partitions[i].Start,
                         Size  |-> d.Partitions[i].Size,
                         End   |-> d.Partitions[i].Start + d.Partitions[i].Size]]]

InitView ==
    /\ viewDisk = NoDisk
    /\ drags = 0

\* NewInteractivePartitionView(disk, ...) on a freshly scanned disk
NewInteractivePartitionView(d) ==
    /\ viewDisk = NoDisk
    /\ viewDisk' = ScannedDisk(d)
    /\ drags' = 0
    /\ UNCHANGED notView

\* v.onRefresh(): the view and its disk are dropped, and the disks are
\* scanned anew
onRefresh ==
    /\ viewDisk # NoDisk
    /\ viewDisk' = NoDisk
    /\ drags' = 0
    /\ UNCHANGED notView

\* minSize := uint64(1024 * 1024 * 10 / 512)
dragMinSize == (1024 * 1024 * 10) \div 512

\* the size handleDrag settles on
DraggedSize(d, part, sectorDelta, isLeft) ==
    LET newSize == IF isLeft
                   THEN IF sectorDelta > part.Size THEN part.Size \div 2
                        ELSE part.Size - sectorDelta
                   ELSE part.Size + sectorDelta
        floored == IF newSize < dragMinSize THEN dragMinSize ELSE newSize
    IN IF floored > calculateMaxSize(d, part) THEN calculateMaxSize(d, part) ELSE floored

\* handleDrag(block, deltaX, isLeft) on the block of partition index i;
\* sectorDelta is uint64(deltaX / pixelsPerSector).  The last statement is
\* block.partition.Size = newSize, and block.partition is
\* &v.disk.Partitions[i].
handleDrag(i, sectorDelta, isLeft) ==
    /\ i < Len(viewDisk.Partitions)
    /\ drags < MaxDrags
    /\ drags' = drags + 1
    /\ viewDisk' = [viewDisk EXCEPT !.Partitions[i + 1].Size =
                        DraggedSize(viewDisk, At(viewDisk.Partitions, i),
                                    sectorDelta, isLeft)]
    /\ UNCHANGED notView

\* the drags tried: none, StartGridMiB, and further than any disk is
\* long (in sectors)
SectorDeltas ==
    {0, StartGridMiB * SectorsPerMiB, 2 * MaxDiskMiB * SectorsPerMiB}

NextView ==
    \/ /\ viewDisk = NoDisk
       /\ \E d \in Disks : NewInteractivePartitionView(d)
    \/ onRefresh
    \/ \E i \in 0..(MaxParts - 1), sectorDelta \in SectorDeltas, isLeft \in BOOLEAN :
           handleDrag(i, sectorDelta, isLeft)

----------------------------------------------------------------------------
\* Properties of the in-memory partitions (checked under SpecView)

\* C34: every Partition of the in-memory model has End = Start + Size, also
\* after the interactive resize preview (handleDrag) has changed its size.
C34_EndIsStartPlusSize ==
    \A i \in 1..Len(viewDisk.Partitions) :
        viewDisk.Partitions[i].End
            = viewDisk.Partitions[i].Start + viewDisk.Partitions[i].Size

----------------------------------------------------------------------------
\* BatchQueue.MoveOperation seen by its caller: the queue before the call,
\* the arguments and the error returned

NoReorder == [before |-> <<>>, id |-> 0, newPosition |-> 0, err |-> "not called"]

InitReorder ==
    reorderLast = NoReorder

\* the error MoveOperation returns ("" for nil)
MoveOperationError(ops, id, newPosition) ==
    IF IndexOfID(ops, id) = -1 THEN "operation not found"
    ELSE IF newPosition < 0 \/ newPosition >= Len(ops) THEN "invalid position"
    ELSE ""

\* err := bq.MoveOperation(id, newPosition), as BatchDialog's move-up and
\* move-down buttons and any other caller see it
MoveOperationCall(id, newPosition) ==
    /\ reorderLast = NoReorder
    /\ Lock
    /\ reorderLast' = [before |-> operations, id |-> id, newPosition |-> newPosition,
                       err |-> MoveOperationError(operations, id, newPosition)]
    /\ operations' = MoveResult(operations, id, newPosition)
    /\ ForgetRun
    /\ UNCHANGED <<nextID, mu, histVars, mwVars, resizeVars, alignVars, copyVars,
                   moveVars, attrVars, fsVars, scanVars, dialogVars, streamVars,
                   onlineVars, viewVars, queuedVars>>

\* the caller has the result; the next call can be made
MoveOperationReturned ==
    /\ reorderLast # NoReorder
    /\ reorderLast' = NoReorder
    /\ UNCHANGED notReorder

NextReorder ==
    \/ /\ reorderLast = NoReorder
       /\ \/ \E type \in AddedTypes : AddOperation(type)
          \/ \E id \in 1..MaxBatchID : RemoveOperation(id)
    \/ \E id \in 1..(MaxBatchID + 1), newPosition \in -1..MaxOps :
           MoveOperationCall(id, newPosition)
    \/ MoveOperationReturned

----------------------------------------------------------------------------
\* Properties of MoveOperation (checked under SpecReorder)

WithoutID(ops, id) == SelectSeq(ops, LAMBDA op : op.ID # id)

Reordered == reorderLast # NoReorder

KnownID == \E i \in 1..Len(reorderLast.before) : reorderLast.before[i].ID = reorderLast.id

InRange == 0 <= reorderLast.newPosition /\ reorderLast.newPosition < Len(reorderLast.before)

\* C35: MoveOperation(id, newPosition) with a known id and a position in
\* 0..Count-1 returns nil and puts that operation at index newPosition; the
\* other operations keep their relative order and no operation is added,
\* dropped or duplicated.  With an unknown id or a position out of range it
\* returns an error and leaves the queue as it was.
C35_MoveKeepsQueue ==
    Reordered =>
        IF KnownID /\ InRange
        THEN /\ reorderLast.err = ""
             /\ Len(operations) = Len(reorderLast.before)
             /\ At(operations, reorderLast.newPosition).ID = reorderLast.id
             /\ WithoutID(operations, reorderLast.id)
                    = WithoutID(reorderLast.before, reorderLast.id)
             /\ \A i \in 1..Len(reorderLast.before) :
                    Cardinality({j \in 1..Len(operations) :
                                     operations[j] = reorderLast.before[i]}) = 1
        ELSE /\ reorderLast.err # ""
             /\ operations = reorderLast.before

\* the first of three operations has been moved to the end of the queue
C35_Witness ==
    /\ Reordered
    /\ Len(reorderLast.before) = 3
    /\ reorderLast.before[1].ID = reorderLast.id
    /\ reorderLast.newPosition = 2
    /\ operations[3].ID = reorderLast.id
    /\ operations[1] = reorderLast.before[2]
    /\ reorderLast.err = ""

----------------------------------------------------------------------------
\* BatchDialog.showAddDeleteDialog and showAddResizeDialog
\* (internal/ui/partitionview.go) and BatchQueue.executeOperation on the
\* operations they add

\* the partitions of bd.disks the select widget offers, by disk and index
Selectable == [Disk : DiskNames, Index : PartIndexes]

\* a BatchOperation as the dialogs build it: the fields a dialog does not
\* set have Go's zero value
DialogOperation(type, partName, size) ==
    [Type |-> type, Partition |-> partName, Disk |-> "", Index |-> "", Size |-> size]

NoIssued == [selected |-> [Disk |-> "", Index |-> ""], ran |-> FALSE, run |-> <<>>]

InitQueued ==
    /\ added = <<>>
    /\ issued = NoIssued

\* the "Add" callback of showAddDeleteDialog with the partition sel selected
showAddDeleteDialog(sel) ==
    /\ Len(added) < MaxAdded
    /\ added' = Append(added,
                    [selected |-> sel,
                     op |-> DialogOperation(OpDelete, PartName(sel.Disk, sel.Index), 0)])
    /\ UNCHANGED <<issued, notQueued>>

\* the "Add" callback of showAddResizeDialog with the partition sel selected
\* and sizeGB in the entry: a size that is not above 0 adds nothing
showAddResizeDialogOn(sel, sizeGB) ==
    /\ Len(added) < MaxAdded
    /\ added' = IF sizeGB <= 0 THEN added
                ELSE Append(added,
                         [selected |-> sel,
                          op |-> DialogOperation(OpResize, PartName(sel.Disk, sel.Index),
                                                 sizeGB * GiB)])
    /\ UNCHANGED <<issued, notQueued>>

GpartResize(diskName, index, sizeM) ==
    [cmd |-> "gpart resize", part |-> PartName(diskName, index), sizeM |-> sizeM]

\* executeOperation(op) for OpDelete and OpResize: DeletePartition(op.Disk,
\* op.Index) and ResizePartition(op.Disk, op.Index, op.Size), each after
\* CheckPrivileges; the result is the commands run
executeOperationRun(op, root) ==
    IF ~root THEN <<>>
    ELSE IF op.Type = OpDelete THEN <<GpartDelete(op.Disk, op.Index)>>
    ELSE IF op.Type = OpResize THEN <<GpartResize(op.Disk, op.Index, op.Size \div MiB)>>
    ELSE <<>>

\* ExecuteAll reaches the first operation added and executes it
executeOperationAdded(root) ==
    /\ added # <<>>
    /\ issued' = [selected |-> Head(added).selected, ran |-> TRUE,
                  run |-> executeOperationRun(Head(added).op, root)]
    /\ added' = Tail(added)
    /\ UNCHANGED notQueued

NextQueued ==
    \/ \E sel \in Selectable : showAddDeleteDialog(sel)
    \/ \E sel \in Selectable, sizeGB \in BatchSizesGB : showAddResizeDialogOn(sel, sizeGB)
    \/ \E root \in BOOLEAN : executeOperationAdded(root)

----------------------------------------------------------------------------
\* Properties of the operations added from the batch dialog (checked under
\* SpecQueued)

\* C37: when a queued delete or resize operation is executed, its external
\* command is issued for the disk and the index of the partition that was
\* selected when the operation was added.
C37_CommandForSelected ==
    \A i \in 1..Len(issued.run) :
        issued.run[i].part = PartName(issued.selected.Disk, issued.selected.Index)

----------------------------------------------------------------------------
\* Specifications

Init ==
    /\ NewBatchQueue
    /\ NewOperationHistory
    /\ NewMainWindow
    /\ InitResize
    /\ InitAlign
    /\ InitCopy
    /\ InitMove
    /\ InitAttr
    /\ InitFS
    /\ InitScan
    /\ InitDialog
    /\ InitStream
    /\ InitOnline
    /\ InitView
    /\ InitReorder
    /\ InitQueued

SpecBatch == Init /\ [][NextBatch]_vars

SpecHist == Init /\ [][NextHist]_vars

SpecRestore == Init /\ [][NextRestore]_vars

SpecMW == Init /\ [][NextMW]_vars

SpecApply == Init /\ [][NextApply]_vars

SpecResize == Init /\ [][NextResize]_vars

SpecAlign == Init /\ [][NextAlign]_vars

SpecCopy == Init /\ [][NextCopy]_vars

SpecMove == Init /\ [][NextMove]_vars

SpecMoveDialog == Init /\ [][NextMoveDialog]_vars

SpecAttr == Init /\ [][NextAttr]_vars

SpecFS == Init /\ [][NextFS]_vars

SpecScan == Init /\ [][NextScan]_vars

SpecDialog == Init /\ [][NextDialog]_vars

SpecDialogFair == SpecDialog /\ WF_vars(RunStep)

SpecStream == Init /\ [][NextStream]_vars

SpecStreamFair == SpecStream /\ WF_vars(StreamStep)

SpecOnline == Init /\ [][NextOnline]_vars

SpecView == Init /\ [][NextView]_vars

SpecReorder == Init /\ [][NextReorder]_vars

SpecQueued == Init /\ [][NextQueued]_vars

Next == NextBatch \/ NextHist \/ NextRestore \/ NextMW \/ NextApply \/ NextResize \/ NextAlign \/ NextCopy
            \/ NextMove \/ NextMoveDialog \/ NextAttr \/ NextFS \/ NextScan \/ NextDialog
            \/ NextStream \/ NextOnline \/ NextView \/ NextReorder \/ NextQueued

Spec == Init /\ [][Next]_vars

====
